---- MODULE Spec2Model ----
(***************************************************************************)
(* AutoSpotting replacement engine: the event handler for a freshly        *)
(* launched spot instance and the swap of that instance with an on-demand  *)
(* member of its auto-scaling group (instance_actions.go, instance.go).    *)
(*                                                                         *)
(* One auto-scaling group, one replacement spot instance and its on-demand *)
(* target are modelled.  Every cloud API call is one step; each call may   *)
(* fail, and the code's reaction to the failure is what the source does    *)
(* with the returned error (most group calls discard it).                  *)
(***************************************************************************)
EXTENDS Integers, Sequences, FiniteSets, TLC

\* ---------------------------------------------------------------- bounds
\* largest MaxSize a group starts with
MaxCap == 3
\* number of times the same "instance running" event is handled in a row
MaxHandlings == 2

\* ------------------------------------------------------------- constants
Nil == "nil"
SpotId == "i-spot"
OdId == "i-od"
GroupName == "g1"

\* the reconciliation processes suspended for the duration of a swap
ScalingProcesses == {"Launch", "Terminate", "ReplaceUnhealthy", "AZRebalance"}

\* the tags a replacement spot instance may carry, as <<key, value>> pairs
ReplacementTags == {<<"launched-for-asg", GroupName>>,
                    <<"launched-for-replacing-instance", OdId>>}

\* the instance and group objects before the first event is handled
NoInstance == [InstanceId |-> Nil, State |-> Nil, Tags |-> {}, InstanceLifecycle |-> Nil]
NoGroup == [DesiredCapacity |-> 0, MaxSize |-> 0, Instances |-> {},
            SuspendedProcesses |-> {}]

VARIABLES
    \* --- the auto-scaling group as the cloud holds it
    MaxSize,             \* group.MaxSize
    DesiredCapacity,     \* group.DesiredCapacity
    SuspendedProcesses,  \* group.SuspendedProcesses
    Instances,           \* ids of the group's members
    \* --- the instances as the cloud holds them
    spotState,           \* State.Name of the replacement spot instance
    spot,                \* [Tags, InstanceLifecycle] of the instance of the event
    od,                  \* the on-demand target: [exists, inGroup, InstanceLifecycle,
                         \*   DisableApiTermination, ProtectedFromScaleIn]
    asgConf,             \* [enabled, eventBased, needReplace] of the group
    \* --- one handling of the event
    pc,                  \* position of the handler
    inst,                \* the instance object materialized at event entry
    asgObj,              \* the autoScalingGroup object loaded at event entry
    odInstance,          \* getSwapCandidate's result
    desiredCapacity,     \* local of swapWithGroupMember
    maxSize,             \* local of swapWithGroupMember
    defers,              \* registered deferred calls, in registration order
    ret,                 \* what the handling returned
    calls,               \* cloud calls issued by this handling, in order
    \* --- across handlings
    handled,             \* handlings completed so far
    prevCalls,           \* cloud calls of the previous handling
    prevRet,             \* what the previous handling returned
    \* --- launchSpotReplacement: the cloud's launch templates and one launch
    templates,           \* names of the launch templates that exist
    templateData,        \* the data the temporary template holds: the launches that made it
    hasLaunchTemplate,   \* i.asg.LaunchTemplate != nil
    lpc,                 \* position of launchSpotReplacement
    createErr,           \* the error CreateLaunchTemplate returned
    lt,                  \* local lt: the temporary template's name
    ltDefers,            \* deferred calls registered by launchSpotReplacement
    instanceTypes,       \* local instanceTypes: the filter's result
    resp,                \* CreateFleet's response
    launchRet,           \* [id, err] returned by launchSpotReplacement
    launchCalls,         \* cloud calls issued by this launch, in order
    launches,            \* launches completed so far for the same instance
    \* --- SpotTermination.executeAction: one termination notice
    terminationNotificationAction,  \* "auto", "terminate" or "detach"
    eventType,           \* detail type of the notice
    SleepMultiplier,     \* SpotTermination.SleepMultiplier
    LifecycleHooks,      \* LifecycleTransition of each hook of the group
    group,               \* [DesiredCapacity, Instances] of the owning group
    notified,            \* [Tags, State] of the notified instance
    atNotice,            \* group and notified as they were when the notice arrived
    tpc,                 \* position of executeAction
    termAsgName,         \* local asgName of executeAction
    termRet,             \* error returned by executeAction
    termCalls,           \* cloud calls and sleeps of executeAction, in order
    \* --- the compatibility filter: its inputs and its result
    ref,                 \* the reference instance i
    catalog,             \* i.region.instanceTypeInformation
    allowedList,         \* allowed instance type patterns
    disallowedList,      \* disallowed instance type patterns
    fpc,                 \* position of the filter
    filtered,            \* [types, err] returned by the filter
    \* --- the functions without state: one application
    input,               \* the arguments, and what the receiver holds of them
    output,              \* what the function returned
    applied,             \* whether the function has been applied
    \* --- the instanceManager of a region and the goroutines that use it
    manager,             \* [catalog, readers, writer]: is.catalog and is.RWMutex
    goroutines,          \* per goroutine: the method it is in and its position
    settled,             \* per id: the instance the completed writes leave, if known
    \* --- the death of the process in the middle of a launch or of a swap
    died,                \* [process, group]: what died, and the group as it had loaded it
    \* --- two invocations of the swap on the same group
    swaps                \* [before, inv]: the group before both, and each invocation's locals

cloud == <<MaxSize, DesiredCapacity, SuspendedProcesses, Instances, spotState>>
scenario == <<spot, od, asgConf>>
locals == <<inst, asgObj, odInstance, desiredCapacity, maxSize, defers>>
history == <<handled, prevCalls, prevRet>>
swapVars == <<cloud, scenario, locals, pc, ret, calls, history>>
launchVars == <<templates, templateData, hasLaunchTemplate, lpc, createErr, lt, ltDefers, instanceTypes, resp,
                launchRet, launchCalls, launches>>
termVars == <<terminationNotificationAction, eventType, SleepMultiplier,
              LifecycleHooks, group, notified, atNotice, tpc, termAsgName, termRet, termCalls>>
filterVars == <<ref, catalog, allowedList, disallowedList, fpc, filtered>>
funVars == <<input, output, applied>>
managerVars == <<manager, goroutines, settled>>
deathVars == <<died>>
pairVars == <<swaps>>
vars == <<swapVars, launchVars, termVars, filterVars, funVars, managerVars, deathVars, pairVars>>

\* what the steps of one operation leave alone: the other operations' state
outsideSwap == <<launchVars, termVars, filterVars, funVars, managerVars, deathVars, pairVars>>
outsideLaunch == <<swapVars, termVars, filterVars, funVars, managerVars, deathVars, pairVars>>
outsideTermination == <<swapVars, launchVars, filterVars, funVars, managerVars, deathVars, pairVars>>
outsideFilter == <<swapVars, launchVars, termVars, funVars, managerVars, deathVars, pairVars>>
outsideFun == <<swapVars, launchVars, termVars, filterVars, managerVars, deathVars, pairVars>>
outsideManager == <<swapVars, launchVars, termVars, filterVars, funVars, deathVars, pairVars>>

Call(op, id, size, ok) == [op |-> op, id |-> id, size |-> size, ok |-> ok]

\* ------------------------------------------------- instance.go predicates

isSpot(lifecycle) == lifecycle = "spot"

canTerminate(stateName) ==
    stateName # "terminated" /\ stateName # "shutting-down"

\* value of the first tag with the given key, Nil when there is none
tagValue(tags, key) ==
    IF \E t \in tags : t[1] = key
    THEN (CHOOSE t \in tags : t[1] = key)[2]
    ELSE Nil

getReplacementTargetASGName(tags) == tagValue(tags, "launched-for-asg")

getReplacementTargetInstanceID(tags) == tagValue(tags, "launched-for-replacing-instance")

\* region.findEnabledASGByName: the group, when it is among region.enabledASGs
findEnabledASGByName(name) ==
    IF name = GroupName /\ asgConf.enabled THEN GroupName ELSE Nil

isEnabledForEventBasedInstanceReplacement == asgConf.eventBased

hasMemberInstance(members, id) == id \in members

\* the membership test left out
isUnattachedSpotInstance_IgnoringMembership(i, members) ==
    LET asgName == getReplacementTargetASGName(i.Tags) IN
    IF asgName = Nil THEN FALSE
    ELSE /\ findEnabledASGByName(asgName) # Nil
         /\ isEnabledForEventBasedInstanceReplacement
         /\ isSpot(i.InstanceLifecycle)

isUnattachedSpotInstanceLaunchedForAnEnabledASG(i, members) ==
    LET asgName == getReplacementTargetASGName(i.Tags) IN
    IF asgName = Nil THEN FALSE
    ELSE LET asg == findEnabledASGByName(asgName) IN
         /\ asg # Nil
         /\ isEnabledForEventBasedInstanceReplacement
         /\ ~hasMemberInstance(members, i.InstanceId)
         /\ isSpot(i.InstanceLifecycle)

\* the state test left out
handleInstanceStates_AnyState(i, members) ==
    IF ~isUnattachedSpotInstanceLaunchedForAnEnabledASG(i, members)
    THEN [skip |-> TRUE, err |-> FALSE]
    ELSE [skip |-> FALSE, err |-> FALSE]

\* handleInstanceStates: <<skip, error>>
handleInstanceStates(i, members) ==
    IF i.State # "running" THEN [skip |-> TRUE, err |-> TRUE]
    ELSE IF ~isUnattachedSpotInstanceLaunchedForAnEnabledASG(i, members)
         THEN [skip |-> TRUE, err |-> FALSE]
         ELSE [skip |-> FALSE, err |-> FALSE]

\* a failed lookup taken as "not protected"
isProtectedFromTermination_FailOpen(ok) == ok /\ od.DisableApiTermination

\* isProtectedFromTermination: ok is the outcome of DescribeInstanceAttribute
isProtectedFromTermination(ok) ==
    IF ~ok THEN TRUE ELSE od.DisableApiTermination

\* belongsToAnASG: the instance carries the aws:autoscaling:groupName tag
belongsToAnASG == od.inGroup

belongsToEnabledASG ==
    belongsToAnASG /\ asgConf.enabled /\ isEnabledForEventBasedInstanceReplacement

asgNeedsReplacement == asgConf.needReplace

isProtectedFromScaleIn(members) ==
    OdId \in members /\ od.ProtectedFromScaleIn

shouldBeReplacedWithSpot(protT, members) ==
    /\ belongsToEnabledASG
    /\ asgNeedsReplacement
    /\ ~isSpot(od.InstanceLifecycle)
    /\ ~isProtectedFromScaleIn(members)
    /\ ~protT

\* ------------------------------------------------------------------ Init

\* an error value is the sequence of the words of its message; nil is <<>>
NoError == <<>>

\* the values of the launch's locals before they are assigned
NoResponse == [Instances |-> <<>>, Errors |-> <<>>]
NoResult == [id |-> Nil, err |-> NoError]

\* no launch, no termination notice and no filter run is in progress
LaunchIdle ==
    /\ templates = {}
    /\ templateData = {}
    /\ hasLaunchTemplate = FALSE
    /\ lpc = "idle"
    /\ createErr = NoError
    /\ lt = Nil
    /\ ltDefers = <<>>
    /\ instanceTypes = <<>>
    /\ resp = NoResponse
    /\ launchRet = NoResult
    /\ launchCalls = <<>>
    /\ launches = 0

\* the group and the instance of a notice before any notice arrived
NoOwner == [DesiredCapacity |-> 0, Instances |-> {}]
NoNotified == [Tags |-> {}, State |-> Nil]

TerminationIdle ==
    /\ terminationNotificationAction = Nil
    /\ eventType = Nil
    /\ SleepMultiplier = 0
    /\ LifecycleHooks = {}
    /\ group = NoOwner
    /\ notified = NoNotified
    /\ atNotice = [group |-> NoOwner, notified |-> NoNotified]
    /\ tpc = "idle"
    /\ termAsgName = Nil
    /\ termRet = NoError
    /\ termCalls = <<>>

\* the filter's result before it has run
NoTypes == [types |-> <<>>, err |-> NoError]

FilterIdle ==
    /\ ref = Nil
    /\ catalog = Nil
    /\ allowedList = <<>>
    /\ disallowedList = <<>>
    /\ fpc = "idle"
    /\ filtered = NoTypes

\* no function is being applied
FunIdle ==
    /\ input = Nil
    /\ output = Nil
    /\ applied = FALSE

\* no goroutine uses an instanceManager
\* no process has died
NoDeath == [process |-> "none", group |-> NoGroup]
Alive == died = NoDeath

\* no second invocation runs beside the one examined
PairIdle == swaps = [before |-> NoGroup, inv |-> <<>>]

ManagerIdle ==
    /\ manager = Nil
    /\ goroutines = Nil
    /\ settled = Nil

OdShapes ==
    {[exists |-> FALSE, inGroup |-> FALSE, InstanceLifecycle |-> "normal",
      DisableApiTermination |-> FALSE, ProtectedFromScaleIn |-> FALSE]}
    \cup
    [exists : {TRUE}, inGroup : BOOLEAN, InstanceLifecycle : {"normal", "spot"},
     DisableApiTermination : BOOLEAN, ProtectedFromScaleIn : BOOLEAN]

Init ==
    /\ spot \in [Tags : SUBSET ReplacementTags, InstanceLifecycle : {"spot", "normal"}]
    /\ od \in OdShapes
    /\ asgConf \in [enabled : BOOLEAN, eventBased : BOOLEAN, needReplace : BOOLEAN]
    /\ spotState \in {"pending", "running"}
    /\ \E attached \in BOOLEAN :
         Instances = (IF od.exists /\ od.inGroup THEN {OdId} ELSE {})
                     \cup (IF attached THEN {SpotId} ELSE {})
    /\ MaxSize \in 1..MaxCap
    /\ DesiredCapacity \in 1..MaxCap
    /\ DesiredCapacity >= Cardinality(Instances)
    /\ DesiredCapacity <= MaxSize
    /\ SuspendedProcesses = {}
    /\ pc = "idle"
    /\ inst = NoInstance
    /\ asgObj = NoGroup
    /\ odInstance = Nil
    /\ desiredCapacity = 0
    /\ maxSize = 0
    /\ defers = <<>>
    /\ ret = "none"
    /\ calls = <<>>
    /\ handled = 0
    /\ prevCalls = <<>>
    /\ prevRet = "none"
    /\ LaunchIdle
    /\ TerminationIdle
    /\ FilterIdle
    /\ FunIdle
    /\ ManagerIdle
    /\ Alive
    /\ PairIdle

\* no event is being handled: the state of the swap while another operation
\* is examined on its own
SwapIdle ==
    /\ spot = [Tags |-> {}, InstanceLifecycle |-> "spot"]
    /\ od = [exists |-> FALSE, inGroup |-> FALSE, InstanceLifecycle |-> "normal",
             DisableApiTermination |-> FALSE, ProtectedFromScaleIn |-> FALSE]
    /\ asgConf = [enabled |-> FALSE, eventBased |-> FALSE, needReplace |-> FALSE]
    /\ spotState = "running"
    /\ Instances = {}
    /\ MaxSize = 1
    /\ DesiredCapacity = 1
    /\ SuspendedProcesses = {}
    /\ pc = "idle"
    /\ inst = NoInstance
    /\ asgObj = NoGroup
    /\ odInstance = Nil
    /\ desiredCapacity = 0
    /\ maxSize = 0
    /\ defers = <<>>
    /\ ret = "none"
    /\ calls = <<>>
    /\ handled = 0
    /\ prevCalls = <<>>
    /\ prevRet = "none"

\* ------------------------------------------------------------- the steps

Finish(r) == /\ ret' = r
             /\ pc' = "done"

\* Event entry: the instance and its group are described afresh, then
\* handleInstanceStates decides whether the event is skipped.
HandleEvent ==
    /\ pc = "idle"
    /\ \E ok \in BOOLEAN :
         /\ calls' = <<Call("DescribeInstances", SpotId, 0, ok)>>
         /\ IF ~ok
            THEN /\ Finish("err")
                 /\ UNCHANGED <<inst, asgObj>>
            ELSE LET i == [InstanceId |-> SpotId, State |-> spotState,
                           Tags |-> spot.Tags,
                           InstanceLifecycle |-> spot.InstanceLifecycle]
                     r == handleInstanceStates(i, Instances)
                 IN /\ inst' = i
                    /\ asgObj' = [DesiredCapacity |-> DesiredCapacity,
                                  MaxSize |-> MaxSize, Instances |-> Instances,
                                  SuspendedProcesses |-> SuspendedProcesses]
                    /\ IF r.skip
                       THEN Finish(IF r.err THEN "skipErr" ELSE "skip")
                       ELSE /\ pc' = "getSwapCandidate"
                            /\ ret' = ret
    /\ UNCHANGED <<cloud, scenario, outsideSwap, odInstance, desiredCapacity, maxSize, defers,
                   history>>

\* getSwapCandidate, up to region.instances.get
ScanTarget ==
    /\ pc = "getSwapCandidate"
    /\ LET odInstanceID == getReplacementTargetInstanceID(inst.Tags) IN
       IF odInstanceID = Nil
       THEN /\ Finish("err")
            /\ UNCHANGED <<calls, odInstance>>
       ELSE \E ok \in BOOLEAN :
              /\ calls' = Append(calls, Call("DescribeInstances", odInstanceID, 0, ok))
              /\ IF ~ok \/ ~od.exists
                 THEN /\ Finish("err")
                      /\ UNCHANGED odInstance
                 ELSE /\ odInstance' = odInstanceID
                      /\ pc' = "shouldBeReplaced"
                      /\ ret' = ret
    /\ UNCHANGED <<cloud, scenario, outsideSwap, inst, asgObj, desiredCapacity, maxSize, defers,
                   history>>

\* getSwapCandidate: odInstance.shouldBeReplacedWithSpot()
CheckCandidate ==
    /\ pc = "shouldBeReplaced"
    /\ \E ok \in BOOLEAN :
         /\ calls' = Append(calls, Call("DescribeInstanceAttribute", odInstance, 0, ok))
         /\ pc' = IF shouldBeReplacedWithSpot(isProtectedFromTermination(ok), Instances)
                  THEN "suspend" ELSE "terminateSpot"
    /\ UNCHANGED <<cloud, scenario, outsideSwap, locals, ret, history>>

\* i.terminate(), called when the candidate is rejected or the attach failed;
\* both callers return an error afterwards
TerminateSpot ==
    /\ pc = "terminateSpot"
    /\ IF canTerminate(inst.State)
       THEN \E ok \in BOOLEAN :
              /\ calls' = Append(calls, Call("TerminateInstances", inst.InstanceId, 0, ok))
              /\ spotState' = IF ok THEN "shutting-down" ELSE spotState
       ELSE UNCHANGED <<calls, spotState>>
    /\ ret' = "err"
    /\ pc' = "defers"
    /\ UNCHANGED <<MaxSize, DesiredCapacity, SuspendedProcesses, Instances, scenario, outsideSwap,
                   locals, history>>

\* ---------------------------------------- the group's operations (GroupView)
\* Each takes the outcome ok of its cloud call; a failed call changes nothing.

\* SuspendProcesses on the group
suspendProcesses(ok, suspended) ==
    IF ok THEN suspended \cup ScalingProcesses ELSE suspended

\* ResumeProcesses on the group
resumeProcesses(ok, suspended) ==
    IF ok THEN suspended \ ScalingProcesses ELSE suspended

\* UpdateAutoScalingGroup(MaxSize = n)
setAutoScalingMaxSize(ok, current, n) == IF ok THEN n ELSE current

\* AttachInstances succeeds only for a running instance that is not yet a
\* member, and only when the group has room for one more
attachSpotInstance(ok, id) ==
    /\ ok
    /\ id \notin Instances
    /\ spotState = "running"
    /\ DesiredCapacity + 1 <= MaxSize

\* TerminateInstanceInAutoScalingGroup succeeds only for a member
terminateInstanceInAutoScalingGroup(ok, id) == ok /\ id \in Instances

\* ------------------------------------------------- swapWithGroupMember

\* the comparison turned around: MaxSize is never raised for a full group
needsMaxSizeIncrease_Greater(d, m) == d > m

\* desiredCapacity == maxSize: the group has no room for the spot instance
needsMaxSizeIncrease(d, m) == d = m

\* deferred calls run in registration order instead of in reverse
registerDeferred_Fifo(d, f) == Append(d, f)

\* defer f: the deferred calls run at return, last registered first
registerDeferred(d, f) == <<f>> \o d

\* the on-demand instance is terminated whether or not the attach succeeded
nextAfterAttach_AlwaysTerminate(attached) == "terminateOD"

\* the spot instance is not terminated when the attach failed
nextAfterAttach_NoTerminate(attached) == IF attached THEN "terminateOD" ELSE "defers"

\* if err != nil after attachSpotInstance: i.terminate() and return the error
nextAfterAttach(attached) == IF attached THEN "terminateOD" ELSE "terminateSpot"

\* the attach branch's error handling repeated for the on-demand termination
nextAfterTerminateOD_TerminateSpot(terminated) ==
    IF terminated THEN "defers" ELSE "terminateSpot"

\* after terminateInstanceInAutoScalingGroup both branches return at once
nextAfterTerminateOD(terminated) == "defers"

\* the suspend call forgotten: only the deferred resume is registered
SuspendProcesses_NotCalled ==
    /\ pc = "suspend"
    /\ defers' = <<"resumeProcesses">> \o defers
    /\ desiredCapacity' = asgObj.DesiredCapacity
    /\ maxSize' = asgObj.MaxSize
    /\ pc' = IF asgObj.DesiredCapacity = asgObj.MaxSize THEN "raiseMaxSize" ELSE "attach"
    /\ UNCHANGED <<cloud, scenario, outsideSwap, inst, asgObj, odInstance, ret, calls, history>>

\* asg.suspendProcesses(); defer asg.resumeProcesses(); then the snapshot of
\* the group's DesiredCapacity and MaxSize
SuspendProcesses ==
    /\ pc = "suspend"
    /\ \E ok \in BOOLEAN :
         /\ calls' = Append(calls, Call("SuspendProcesses", GroupName, 0, ok))
         /\ SuspendedProcesses' = suspendProcesses(ok, SuspendedProcesses)
    /\ defers' = registerDeferred(defers, "resumeProcesses")
    /\ desiredCapacity' = asgObj.DesiredCapacity
    /\ maxSize' = asgObj.MaxSize
    /\ pc' = IF needsMaxSizeIncrease(asgObj.DesiredCapacity, asgObj.MaxSize)
             THEN "raiseMaxSize" ELSE "attach"
    /\ UNCHANGED <<MaxSize, DesiredCapacity, Instances, spotState, scenario, outsideSwap,
                   inst, asgObj, odInstance, ret, history>>

\* MaxSize raised without the deferred restore
RaiseMaxSize_NoRestore ==
    /\ pc = "raiseMaxSize"
    /\ \E ok \in BOOLEAN :
         /\ calls' = Append(calls, Call("UpdateAutoScalingGroup", GroupName, maxSize + 1, ok))
         /\ MaxSize' = IF ok THEN maxSize + 1 ELSE MaxSize
    /\ pc' = "attach"
    /\ UNCHANGED <<DesiredCapacity, SuspendedProcesses, Instances, spotState, scenario, outsideSwap,
                   locals, ret, history>>

\* asg.setAutoScalingMaxSize(maxSize + 1); defer asg.setAutoScalingMaxSize(maxSize)
RaiseMaxSize ==
    /\ pc = "raiseMaxSize"
    /\ \E ok \in BOOLEAN :
         /\ calls' = Append(calls, Call("UpdateAutoScalingGroup", GroupName, maxSize + 1, ok))
         /\ MaxSize' = setAutoScalingMaxSize(ok, MaxSize, maxSize + 1)
    /\ defers' = registerDeferred(defers, "setAutoScalingMaxSize")
    /\ pc' = "attach"
    /\ UNCHANGED <<DesiredCapacity, SuspendedProcesses, Instances, spotState, scenario, outsideSwap,
                   inst, asgObj, odInstance, desiredCapacity, maxSize, ret,
                   history>>

\* err = asg.attachSpotInstance(*i.InstanceId, true)
AttachSpot ==
    /\ pc = "attach"
    /\ \E ok \in BOOLEAN :
         LET attached == attachSpotInstance(ok, inst.InstanceId) IN
         /\ calls' = Append(calls, Call("AttachInstances", inst.InstanceId, 0, attached))
         /\ Instances' = IF attached THEN Instances \cup {inst.InstanceId} ELSE Instances
         /\ DesiredCapacity' = IF attached THEN DesiredCapacity + 1 ELSE DesiredCapacity
         /\ pc' = nextAfterAttach(attached)
    /\ UNCHANGED <<MaxSize, SuspendedProcesses, spotState, scenario, outsideSwap, locals, ret,
                   history>>

\* the on-demand instance terminated without decrementing DesiredCapacity
TerminateOnDemand_NoDecrement ==
    /\ pc = "terminateOD"
    /\ \E ok \in BOOLEAN :
         LET terminated == terminateInstanceInAutoScalingGroup(ok, odInstance) IN
         /\ calls' = Append(calls,
                Call("TerminateInstanceInAutoScalingGroup", odInstance, 0, terminated))
         /\ Instances' = IF terminated THEN Instances \ {odInstance} ELSE Instances
         /\ ret' = IF terminated THEN "swapped" ELSE "err"
         /\ pc' = nextAfterTerminateOD(terminated)
    /\ UNCHANGED <<MaxSize, DesiredCapacity, SuspendedProcesses, spotState, scenario,
                   outsideSwap, locals, history>>

\* asg.terminateInstanceInAutoScalingGroup(odInstance, true, true)
TerminateOnDemand ==
    /\ pc = "terminateOD"
    /\ \E ok \in BOOLEAN :
         LET terminated == terminateInstanceInAutoScalingGroup(ok, odInstance) IN
         /\ calls' = Append(calls,
                Call("TerminateInstanceInAutoScalingGroup", odInstance, 0, terminated))
         /\ Instances' = IF terminated THEN Instances \ {odInstance} ELSE Instances
         /\ DesiredCapacity' = IF terminated THEN DesiredCapacity - 1 ELSE DesiredCapacity
         /\ ret' = IF terminated THEN "swapped" ELSE "err"
         /\ pc' = nextAfterTerminateOD(terminated)
    /\ UNCHANGED <<MaxSize, SuspendedProcesses, spotState, scenario, outsideSwap, locals,
                   history>>

\* deferred asg.setAutoScalingMaxSize(maxSize)
RestoreMaxSize ==
    /\ pc = "defers"
    /\ defers # <<>>
    /\ Head(defers) = "setAutoScalingMaxSize"
    /\ \E ok \in BOOLEAN :
         /\ calls' = Append(calls, Call("UpdateAutoScalingGroup", GroupName, maxSize, ok))
         /\ MaxSize' = setAutoScalingMaxSize(ok, MaxSize, maxSize)
    /\ defers' = Tail(defers)
    /\ UNCHANGED <<DesiredCapacity, SuspendedProcesses, Instances, spotState, scenario, outsideSwap,
                   inst, asgObj, odInstance, desiredCapacity, maxSize, pc, ret,
                   history>>

\* deferred asg.resumeProcesses()
ResumeProcesses ==
    /\ pc = "defers"
    /\ defers # <<>>
    /\ Head(defers) = "resumeProcesses"
    /\ \E ok \in BOOLEAN :
         /\ calls' = Append(calls, Call("ResumeProcesses", GroupName, 0, ok))
         /\ SuspendedProcesses' = resumeProcesses(ok, SuspendedProcesses)
    /\ defers' = Tail(defers)
    /\ UNCHANGED <<MaxSize, DesiredCapacity, Instances, spotState, scenario, outsideSwap,
                   inst, asgObj, odInstance, desiredCapacity, maxSize, pc, ret,
                   history>>

\* every deferred call has run: the handling returns
Return ==
    /\ pc = "defers"
    /\ defers = <<>>
    /\ pc' = "done"
    /\ UNCHANGED <<cloud, scenario, outsideSwap, locals, ret, calls, history>>

\* the same event is delivered again
NextEvent ==
    /\ pc = "done"
    /\ handled + 1 < MaxHandlings
    /\ handled' = handled + 1
    /\ prevCalls' = calls
    /\ prevRet' = ret
    /\ calls' = <<>>
    /\ pc' = "idle"
    /\ ret' = "none"
    /\ inst' = NoInstance
    /\ asgObj' = NoGroup
    /\ odInstance' = Nil
    /\ desiredCapacity' = 0
    /\ maxSize' = 0
    /\ defers' = <<>>
    /\ UNCHANGED <<cloud, scenario, outsideSwap>>

Next ==
    \/ HandleEvent
    \/ ScanTarget
    \/ CheckCandidate
    \/ TerminateSpot
    \/ SuspendProcesses
    \/ RaiseMaxSize
    \/ AttachSpot
    \/ TerminateOnDemand
    \/ RestoreMaxSize
    \/ ResumeProcesses
    \/ Return
    \/ NextEvent

Spec == Init /\ [][Next]_vars

\* =====================================================================
\* Properties
\* =====================================================================

\* ---- the call log
Idx(log, op, id) == {k \in 1..Len(log) : log[k].op = op /\ log[k].id = id}
Issued(log, op, id) == Idx(log, op, id) # {}
Succeeded(log, op, id) == \E k \in Idx(log, op, id) : log[k].ok
Failed(log, op, id) == \E k \in Idx(log, op, id) : ~log[k].ok

\* UpdateAutoScalingGroup calls setting MaxSize to n
SizeIdx(log, n) == {k \in Idx(log, "UpdateAutoScalingGroup", GroupName) : log[k].size = n}

MutatingOps == {"SuspendProcesses", "ResumeProcesses", "UpdateAutoScalingGroup",
                "AttachInstances", "TerminateInstanceInAutoScalingGroup",
                "TerminateInstances"}
NoMutatingCall(log) == \A k \in 1..Len(log) : log[k].op \notin MutatingOps

\* swapWithGroupMember was invoked by this handling and has returned
SwapInvoked == inst.InstanceId # Nil /\ ret \notin {"skip", "skipErr"}
SwapReturned == pc = "done" /\ SwapInvoked

RaiseIdx == SizeIdx(calls, maxSize + 1)
RestoreIdx == SizeIdx(calls, maxSize)
SuspendIdx == Idx(calls, "SuspendProcesses", GroupName)
ResumeIdx == Idx(calls, "ResumeProcesses", GroupName)

\* every undo registered by the swap has been issued, after what it undoes
UndoIssued ==
    /\ \A k \in SuspendIdx : \E j \in ResumeIdx : j > k
    /\ \A k \in RaiseIdx : \E j \in RestoreIdx : j > k

\* ---- C1
\* C1 as stated: when swapWithGroupMember returns, whatever its outcome and
\* whichever cloud calls failed, the group's MaxSize is the value it had when
\* the swap started and none of the swap's processes is suspended.
C1_CapacityRestoredWhateverFails ==
    SwapReturned =>
        /\ MaxSize = asgObj.MaxSize
        /\ SuspendedProcesses \cap ScalingProcesses = {}

\* C1 amended: when swapWithGroupMember returns, every suspend and every
\* raise of MaxSize it issued has been followed by its undo call; MaxSize is
\* the pre-swap value unless the restoring UpdateAutoScalingGroup call itself
\* failed; the processes the swap suspended are resumed unless ResumeProcesses
\* itself failed, and a swap that returns before suspending leaves the
\* suspended set as it found it.
C1_CapacityRestoredUnlessUndoFails ==
    SwapReturned =>
        /\ UndoIssued
        /\ (\A k \in RestoreIdx : calls[k].ok) => MaxSize = asgObj.MaxSize
        /\ (SuspendIdx # {} /\ \A k \in ResumeIdx : calls[k].ok) =>
               SuspendedProcesses \cap ScalingProcesses = {}
        /\ SuspendIdx = {} => SuspendedProcesses = asgObj.SuspendedProcesses

\* Tight capacity (Desired = Max = 2): MaxSize was raised to 3 and is back
\* to 2 when the successful swap returns.
C1_Witness ==
    /\ SwapReturned
    /\ ret = "swapped"
    /\ asgObj.DesiredCapacity = 2 /\ asgObj.MaxSize = 2
    /\ \E k \in RaiseIdx : calls[k].ok /\ calls[k].size = 3
    /\ \E k \in RestoreIdx : calls[k].ok
    /\ MaxSize = 2
    /\ SuspendedProcesses = {}

SwapArmed ==
    \/ pc \in {"attach", "terminateOD"}
    \/ pc = "terminateSpot" /\ defers # <<>>

Rank(c) ==
    CASE c.op = "DescribeInstances" /\ c.id = OdId -> 1
      [] c.op = "SuspendProcesses" -> 2
      [] c.op = "UpdateAutoScalingGroup" /\ c.size = maxSize + 1 -> 3
      [] c.op = "AttachInstances" -> 4
      [] c.op = "TerminateInstanceInAutoScalingGroup" -> 5
      [] c.op = "UpdateAutoScalingGroup" /\ c.size = maxSize -> 6
      [] c.op = "ResumeProcesses" -> 7
      [] OTHER -> 0

IsSwapCall(c) == Rank(c) > 0
SwapCalls == SelectSeq(calls, IsSwapCall)
HasStep(r) == \E k \in 1..Len(SwapCalls) : Rank(SwapCalls[k]) = r
StepOk(r) == \E k \in 1..Len(SwapCalls) : Rank(SwapCalls[k]) = r /\ SwapCalls[k].ok

TargetProtected ==
    /\ od.exists
    /\ \/ od.DisableApiTermination
       \/ od.inGroup /\ od.ProtectedFromScaleIn
       \/ Failed(calls, "DescribeInstanceAttribute", OdId)

CandidateChecked == Issued(calls, "DescribeInstanceAttribute", OdId)
CandidateAccepted == Issued(calls, "SuspendProcesses", GroupName) \/ pc = "suspend"

\* C5: shouldBeReplacedWithSpot() is false for a protected on-demand target,
\* so the swap rejects it and never issues
\* TerminateInstanceInAutoScalingGroup for it.
C5_ProtectedTargetNeverTerminated ==
    TargetProtected =>
        /\ ~CandidateAccepted
        /\ ~Issued(calls, "TerminateInstanceInAutoScalingGroup", OdId)
        /\ ret # "swapped"
        /\ CandidateChecked => pc \in {"terminateSpot", "defers", "done"}

\* a target whose only obstacle is ProtectedFromScaleIn has been checked and
\* rejected, and the handling has returned
C5_Witness ==
    /\ pc = "done"
    /\ Succeeded(calls, "DescribeInstanceAttribute", OdId)
    /\ od.inGroup /\ od.ProtectedFromScaleIn /\ ~od.DisableApiTermination
    /\ od.InstanceLifecycle = "normal"
    /\ asgConf.enabled /\ asgConf.eventBased /\ asgConf.needReplace
    /\ ret = "err"

\* ---- C6
CandidateRejected == CandidateChecked /\ ~CandidateAccepted

\* C6: when the re-described on-demand target no longer exists, or
\* shouldBeReplacedWithSpot() is false for it, the swap has issued
\* TerminateInstances for the spot instance and returns an error.
C6_SpotTerminatedWhenTargetGoneOrRejected ==
    (/\ SwapReturned
     /\ Succeeded(calls, "DescribeInstances", OdId)
     /\ ~od.exists \/ CandidateRejected)
    => /\ Issued(calls, "TerminateInstances", SpotId)
       /\ ret = "err"

\* ---- C7
\* C7: a swap whose AttachInstances failed has issued TerminateInstances for
\* the spot instance after the attach, has not issued
\* TerminateInstanceInAutoScalingGroup, has run its undo steps and returns an
\* error.
C7_AttachFailure ==
    (pc = "done" /\ Failed(calls, "AttachInstances", SpotId)) =>
        /\ \E a \in Idx(calls, "AttachInstances", SpotId) :
             \E t \in Idx(calls, "TerminateInstances", SpotId) : a < t
        /\ ~Issued(calls, "TerminateInstanceInAutoScalingGroup", OdId)
        /\ ResumeIdx # {}
        /\ UndoIssued
        /\ ret = "err"

\* the attach failed on a full group whose MaxSize had been raised
C7_Witness ==
    /\ pc = "done"
    /\ Failed(calls, "AttachInstances", SpotId)
    /\ RaiseIdx # {}
    /\ RestoreIdx # {}
    /\ Issued(calls, "TerminateInstances", SpotId)

\* ---- C8
\* C8: a swap whose TerminateInstanceInAutoScalingGroup failed after a
\* successful attach returns an error, has run its undo steps, and has issued
\* no terminate call for the spot instance, which stays a running member.
C8_OnDemandTerminationFailure ==
    (pc = "done" /\ Failed(calls, "TerminateInstanceInAutoScalingGroup", OdId)) =>
        /\ ret = "err"
        /\ ResumeIdx # {}
        /\ UndoIssued
        /\ Succeeded(calls, "AttachInstances", SpotId)
        /\ ~Issued(calls, "TerminateInstances", SpotId)
        /\ SpotId \in Instances
        /\ spotState = "running"

C8_Witness ==
    /\ pc = "done"
    /\ Failed(calls, "TerminateInstanceInAutoScalingGroup", OdId)
    /\ SpotId \in Instances
    /\ OdId \in Instances
    /\ ret = "err"

\* ---- C9
\* C9 as stated: whatever the outcome of the first handling of the event, a
\* later handling of the same event issues no mutating cloud call (stated
\* here for a first handling that got as far as handleInstanceStates).
C9_SecondHandlingIsNoOp ==
    (handled >= 1 /\ Succeeded(prevCalls, "DescribeInstances", SpotId)) =>
        NoMutatingCall(calls)

\* the previous handling skipped the event, attached the spot instance or
\* terminated it
SettledByPrevious ==
    \/ prevRet \in {"skip", "skipErr"}
    \/ Succeeded(prevCalls, "AttachInstances", SpotId)
    \/ Succeeded(prevCalls, "TerminateInstances", SpotId)

CloudAsAtEntry ==
    inst.InstanceId # Nil =>
        /\ MaxSize = asgObj.MaxSize
        /\ DesiredCapacity = asgObj.DesiredCapacity
        /\ Instances = asgObj.Instances
        /\ SuspendedProcesses = asgObj.SuspendedProcesses
        /\ spotState = inst.State

\* C9 amended: when the first handling skipped the event, attached the spot
\* instance (the swap succeeded, or only the on-demand termination failed) or
\* terminated it, the second handling issues no mutating cloud call and leaves
\* the cloud state as it was.
C9_SecondHandlingNoOpOnceSettled ==
    (handled >= 1 /\ SettledByPrevious) =>
        /\ NoMutatingCall(calls)
        /\ CloudAsAtEntry
        /\ ret # "swapped"

\* the first handling swapped the instances, the second one skipped the event
C9_Witness ==
    /\ handled = 1
    /\ pc = "done"
    /\ prevRet = "swapped"
    /\ ret = "skip"

\* ---- C10
HasAsgTag == \E t \in inst.Tags : t[1] = "launched-for-asg"
GroupEnabled == asgConf.enabled /\ asgConf.eventBased
Skipped == pc = "done" /\ NoMutatingCall(calls)

\* C10: an instance that is not running is skipped with an error; a running
\* instance that is no spot instance, is already a member of its group, has
\* no launched-for-asg tag or whose group is not enabled is skipped without
\* error; neither causes a mutating cloud call; only a running, unattached
\* spot instance launched for an enabled group is not skipped.
C10_SkipDecision ==
    inst.InstanceId # Nil =>
        /\ inst.State # "running" => Skipped /\ ret = "skipErr"
        /\ (/\ inst.State = "running"
            /\ \/ inst.InstanceLifecycle # "spot"
               \/ SpotId \in asgObj.Instances
               \/ ~HasAsgTag
               \/ ~GroupEnabled)
           => Skipped /\ ret = "skip"
        /\ ret \notin {"skip", "skipErr"} =>
               /\ inst.State = "running"
               /\ inst.InstanceLifecycle = "spot"
               /\ SpotId \notin asgObj.Instances
               /\ HasAsgTag
               /\ GroupEnabled

\* a running spot instance that is already a member of its enabled group
C10_Witness ==
    /\ pc = "done"
    /\ ret = "skip"
    /\ inst.State = "running"
    /\ inst.InstanceLifecycle = "spot"
    /\ HasAsgTag /\ GroupEnabled
    /\ SpotId \in asgObj.Instances

\* ---- error messages

\* strings.Contains on an error message
Contains(err, word) == \E k \in 1..Len(err) : err[k] = word

\* the filter's error for no compatible type
NoTypesError == <<"No cheaper spot instance types could be found">>

\* =====================================================================
\* The compatibility filter:
\* getCompatibleSpotInstanceTypesListSortedAscendingByPrice (instance.go)
\* =====================================================================

\* largest spot price, in price units; prices are whole units
MaxPrice == 3
\* largest count of vCPUs, memory, GPUs, throughput, store devices and sizes
MaxUnits == 3

\* what the reference instance has of each, so that a candidate can have
\* less, as much, or more
RefUnits == MaxUnits - 1

\* the zone of the reference instance, and another zone of the region
RefZone == "eu-west-1a"
OtherZone == "eu-west-1b"

\* PhysicalProcessor strings, as the words strings.Contains looks for
Intel == <<"Intel", "Xeon", "Family">>
AMD == <<"AMD", "EPYC", "7000", "series">>
Graviton == <<"AWS", "Graviton", "Processor">>
Variable == <<"Variable">>
Processors == {Intel, AMD, Graviton, Variable}

\* instance type names, as <<family, size>>; NameOrder is sort.Strings' order
TypeNames == {<<"c5", "large">>, <<"m5", "large">>}
NameOrder == <<<<"c5", "large">>, <<"m5", "large">>>>

\* allow and deny lists: glob patterns over <<family, size>>
Patterns == {<<>>, <<<<"c5", "*">>>>, <<<<"m5", "large">>>>}

\* ---- the inputs
\* spot prices by zone: the reference's zone may be missing, or priced 0
SpotPrices ==
    {(OtherZone :> 1)} \cup {(RefZone :> q) @@ (OtherZone :> 1) : q \in 0..MaxPrice}

\* a type compatible with the base reference in every respect
BaseType(name) ==
    [instanceType |-> name,
     vCPU |-> RefUnits, memory |-> RefUnits, GPU |-> RefUnits,
     PhysicalProcessor |-> Intel,
     pricing |-> [spot |-> (RefZone :> 1) @@ (OtherZone :> 1), ebsSurcharge |-> 0],
     virtualizationTypes |-> <<"HVM">>,
     instanceStoreDeviceSize |-> RefUnits,
     instanceStoreDeviceCount |-> RefUnits,
     instanceStoreIsSSD |-> TRUE,
     EBSThroughput |-> RefUnits]

\* the types that differ from the base type in what one predicate reads
PriceVariants(name) ==
    {[BaseType(name) EXCEPT !.pricing = [spot |-> sp, ebsSurcharge |-> e]] :
        sp \in SpotPrices, e \in 0..1}
ClassVariants(name) ==
    {[BaseType(name) EXCEPT !.vCPU = v, !.memory = m, !.GPU = g,
                            !.PhysicalProcessor = cpu] :
        v \in 1..MaxUnits, m \in 1..MaxUnits, g \in 1..MaxUnits, cpu \in Processors}
EBSVariants(name) ==
    {[BaseType(name) EXCEPT !.EBSThroughput = t] : t \in 1..MaxUnits}
StorageVariants(name) ==
    {[BaseType(name) EXCEPT !.instanceStoreDeviceCount = n,
                            !.instanceStoreDeviceSize = sz,
                            !.instanceStoreIsSSD = ssd] :
        n \in 0..MaxUnits, sz \in 1..MaxUnits, ssd \in BOOLEAN}
VirtualizationVariants(name) ==
    {[BaseType(name) EXCEPT !.virtualizationTypes = vt] :
        vt \in {<<>>, <<"HVM">>, <<"PV">>, <<"PV", "HVM">>}}
TypeVariants(name) ==
    PriceVariants(name) \cup ClassVariants(name) \cup EBSVariants(name)
        \cup StorageVariants(name) \cup VirtualizationVariants(name)

\* catalogs: the first type varies in everything one predicate reads, the
\* second in its prices
Catalogs ==
    LET first == NameOrder[1]
        second == NameOrder[2]
    IN  {<<>>}
        \cup {(first :> a) : a \in TypeVariants(first)}
        \cup {(second :> b) : b \in PriceVariants(second)}
        \cup {(first :> a) @@ (second :> b) :
                 a \in TypeVariants(first), b \in PriceVariants(second)}

\* the base reference instance: typeInfo, price ceiling, EBS optimization,
\* virtualization, zone, and the ephemeral volumes of its launch configuration
BaseRef ==
    [typeInfo |-> [vCPU |-> RefUnits, memory |-> RefUnits, GPU |-> RefUnits,
                   PhysicalProcessor |-> Intel,
                   EBSThroughput |-> RefUnits,
                   instanceStoreDeviceSize |-> RefUnits,
                   instanceStoreDeviceCount |-> RefUnits,
                   instanceStoreIsSSD |-> TRUE],
     price |-> MaxPrice - 1,
     EbsOptimized |-> FALSE,
     VirtualizationType |-> "hvm",
     AvailabilityZone |-> RefZone,
     ephemeralVolumes |-> 1]

\* the references that differ from the base reference in what one predicate
\* reads
References ==
    {[BaseRef EXCEPT !.price = q, !.EbsOptimized = e] :
        q \in 1..MaxPrice, e \in BOOLEAN}
    \cup {[BaseRef EXCEPT !.typeInfo.PhysicalProcessor = cpu] : cpu \in Processors}
    \cup {[BaseRef EXCEPT !.ephemeralVolumes = n, !.typeInfo.instanceStoreIsSSD = ssd] :
             n \in 0..MaxUnits, ssd \in BOOLEAN}
    \cup {[BaseRef EXCEPT !.VirtualizationType = vt] : vt \in {"hvm", "paravirtual"}}

\* ---- the predicates (instance.go)

min(x, y) == IF x < y THEN x ELSE y

\* spotCandidate.pricing.spot[zone]: 0 for a zone the map does not hold
spotPriceIn(candidate, zone) ==
    IF zone \in DOMAIN candidate.pricing.spot THEN candidate.pricing.spot[zone] ELSE 0

calculatePrice(i, spotCandidate) ==
    spotPriceIn(spotCandidate, i.AvailabilityZone)
        + (IF i.EbsOptimized THEN spotCandidate.pricing.ebsSurcharge ELSE 0)

isPriceCompatible(i, spotPrice) ==
    IF spotPrice = 0 THEN FALSE ELSE spotPrice <= i.price

isIntel(cpuName) == Contains(cpuName, "Intel") \/ Contains(cpuName, "Variable")
isAMD(cpuName) == Contains(cpuName, "AMD")
isARM(cpuName) == Contains(cpuName, "AWS")
isIntelCompatible(cpuName) == isIntel(cpuName) \/ isAMD(cpuName)

isSameArch(i, other) ==
    \/ isIntelCompatible(i.typeInfo.PhysicalProcessor)
          /\ isIntelCompatible(other.PhysicalProcessor)
    \/ isARM(i.typeInfo.PhysicalProcessor) /\ isARM(other.PhysicalProcessor)

\* the GPU count left out of the comparison
isClassCompatible_IgnoringGPU(i, spotCandidate) ==
    /\ isSameArch(i, spotCandidate)
    /\ spotCandidate.vCPU >= i.typeInfo.vCPU
    /\ spotCandidate.memory >= i.typeInfo.memory

isClassCompatible(i, spotCandidate) ==
    /\ isSameArch(i, spotCandidate)
    /\ spotCandidate.vCPU >= i.typeInfo.vCPU
    /\ spotCandidate.memory >= i.typeInfo.memory
    /\ spotCandidate.GPU >= i.typeInfo.GPU

isEBSCompatible(i, spotCandidate) ==
    ~(spotCandidate.EBSThroughput < i.typeInfo.EBSThroughput)

isStorageCompatible(i, spotCandidate, attachedVolumes) ==
    \/ attachedVolumes = 0
    \/ /\ spotCandidate.instanceStoreDeviceCount >= attachedVolumes
       /\ spotCandidate.instanceStoreDeviceSize >= i.typeInfo.instanceStoreDeviceSize
       /\ \/ spotCandidate.instanceStoreIsSSD
          \/ spotCandidate.instanceStoreIsSSD = i.typeInfo.instanceStoreIsSSD

isVirtualizationCompatible(i, spotVirtualizationTypes) ==
    LET types == IF Len(spotVirtualizationTypes) = 0 THEN <<"HVM">>
                 ELSE spotVirtualizationTypes
    IN  \E k \in 1..Len(types) :
           \/ types[k] = "PV" /\ i.VirtualizationType = "paravirtual"
           \/ types[k] = "HVM" /\ i.VirtualizationType = "hvm"

\* filepath.Match for a pattern family.size in which "*" stands for a whole part
Match(pattern, name) ==
    /\ Len(pattern) = Len(name)
    /\ \A k \in 1..Len(pattern) : pattern[k] = "*" \/ pattern[k] = name[k]

isAllowed(instanceType, allowed, disallowed) ==
    IF Len(allowed) > 0
    THEN \E k \in 1..Len(allowed) : Match(allowed[k], instanceType)
    ELSE ~(\E k \in 1..Len(disallowed) : Match(disallowed[k], instanceType))

\* ---- the filter

\* the keys of the catalog in sort.Strings' order
sortedKeys(info) ==
    LET Held(name) == name \in DOMAIN info IN SelectSeq(NameOrder, Held)

\* the condition under which the loop appends a candidate
isAcceptable(i, candidate, allowed, disallowed) ==
    /\ isAllowed(candidate.instanceType, allowed, disallowed)
    /\ isPriceCompatible(i, calculatePrice(i, candidate))
    /\ isEBSCompatible(i, candidate)
    /\ isClassCompatible(i, candidate)
    /\ isStorageCompatible(i, candidate,
          min(i.ephemeralVolumes, i.typeInfo.instanceStoreDeviceCount))
    /\ isVirtualizationCompatible(i, candidate.virtualizationTypes)

\* acceptableInstanceTypes after the loop over the sorted keys
acceptableInstanceTypes(i, info, allowed, disallowed) ==
    LET Accepted(name) == isAcceptable(i, info[name], allowed, disallowed)
        names == SelectSeq(sortedKeys(info), Accepted)
    IN  [k \in 1..Len(names) |->
            [instanceTI |-> info[names[k]], price |-> calculatePrice(i, info[names[k]])]]

\* the result left in the order of the loop over the keys
sortSlice_KeyOrder(acceptable) == {acceptable}

\* sort.Slice by price: any arrangement in ascending order of price; the
\* sort is not stable, so equal prices may come out in either order
sortSlice(acceptable) ==
    LET n == Len(acceptable)
        arrangements == {f \in [1..n -> 1..n] : \A a, b \in 1..n : a # b => f[a] # f[b]}
    IN  {[k \in 1..n |-> acceptable[f[k]]] :
            f \in {g \in arrangements :
                     \A a, b \in 1..n :
                        a < b => ~(acceptable[g[b]].price < acceptable[g[a]].price)}}

\* the sorted list returned whether or not it holds a type
getCompatibleSpotInstanceTypesList_NoError(i, info, allowed, disallowed) ==
    {[types |-> [k \in 1..Len(sorted) |-> sorted[k].instanceTI], err |-> NoError] :
        sorted \in sortSlice(acceptableInstanceTypes(i, info, allowed, disallowed))}

\* what the filter may return: the sorted types, or the error for none
getCompatibleSpotInstanceTypesListSortedAscendingByPrice(i, info, allowed, disallowed) ==
    LET acceptable == acceptableInstanceTypes(i, info, allowed, disallowed) IN
    IF Len(acceptable) > 0
    THEN {[types |-> [k \in 1..Len(sorted) |-> sorted[k].instanceTI], err |-> NoError] :
             sorted \in sortSlice(acceptable)}
    ELSE {[types |-> <<>>, err |-> NoTypesError]}

\* =====================================================================
\* launchSpotReplacement: the replacement launched through a temporary
\* launch template and one CreateFleet request
\* =====================================================================

\* number of times the replacement of the same instance is attempted
MaxLaunches == 2

\* TargetCapacitySpecification.TotalTargetCapacity of the fleet request
TotalTargetCapacity == 1

\* the error a failed cloud call returns
CloudError(op) == <<op, "RequestLimitExceeded">>
AlreadyExistsError == <<"InvalidLaunchTemplateName", "AlreadyExistsException">>
LaunchError == <<"Couldn't launch spot instance replacement">>

\* ltName of createFleetLaunchTemplate
ltName(id) == "AutoSpotting-Temporary-LaunchTemplate-for-" \o id

\* what CreateLaunchTemplate may answer for a name: a name in use is refused
CreateLaunchTemplateErrors(name) ==
    IF name \in templates
    THEN {AlreadyExistsError, CloudError("CreateLaunchTemplate")}
    ELSE {NoError, CloudError("CreateLaunchTemplate")}

\* the run that left the template an invocation finds at its start: an earlier
\* one, numbered before the launches of the behaviour
EarlierRun == 0 - 1

\* the request replaces the data of a template that exists
storedTemplateData_Overwritten(err, held, ltData) ==
    IF err = NoError \/ Contains(err, "AlreadyExistsException") THEN ltData ELSE held

\* what the template of the name holds after CreateLaunchTemplate(ltName,
\* ltData): the data of the request when the template was created, and what
\* it held before when the request was refused
storedTemplateData(err, held, ltData) == IF err = NoError THEN ltData ELSE held

\* every error of CreateLaunchTemplate aborts, the name collision included
createFleetLaunchTemplate_NoReuse(id, err) ==
    IF err # NoError
    THEN [lt |-> Nil, err |-> err]
    ELSE [lt |-> ltName(id), err |-> NoError]

\* createFleetLaunchTemplate's result for the error CreateLaunchTemplate gave
createFleetLaunchTemplate(id, err) ==
    IF err # NoError /\ ~Contains(err, "AlreadyExistsException")
    THEN [lt |-> Nil, err |-> err]
    ELSE [lt |-> ltName(id), err |-> NoError]

\* the catalogs of the region in which a replacement is launched: none, or
\* one or two types, the first at every price
LaunchCatalogs ==
    LET first == NameOrder[1]
        second == NameOrder[2]
    IN  {<<>>}
        \cup {(first :> a) : a \in PriceVariants(first)}
        \cup {(first :> a) @@ (second :> BaseType(second)) : a \in PriceVariants(first)}

\* what the launch leaves alone of the filter's variables
filterInputs == <<ref, catalog, allowedList, disallowedList, fpc>>

\* sequences over S of at most TotalTargetCapacity elements
UpToCapacity(S) == UNION {[1..n -> S] : n \in 0..TotalTargetCapacity}

\* what CreateFleet may answer when the call itself succeeds
FleetResponses ==
    [Instances : UpToCapacity([InstanceIds : UpToCapacity({SpotId})]),
     Errors : {<<>>, <<"InsufficientInstanceCapacity">>}]

\* the instance ids a response carries
ResponseIds(r) ==
    UNION {{r.Instances[k].InstanceIds[j] : j \in 1..Len(r.Instances[k].InstanceIds)} :
             k \in 1..Len(r.Instances)}

InitLaunch ==
    /\ templates \in SUBSET {ltName(OdId)}
    /\ templateData = IF templates = {} THEN {} ELSE {EarlierRun}
    /\ hasLaunchTemplate \in BOOLEAN
    /\ lpc = "createLaunchTemplateData"
    /\ createErr = NoError
    /\ lt = Nil
    /\ ltDefers = <<>>
    /\ instanceTypes = <<>>
    /\ resp = NoResponse
    /\ launchRet = NoResult
    /\ launchCalls = <<>>
    /\ launches = 0
    /\ ref = BaseRef
    /\ catalog \in LaunchCatalogs
    /\ allowedList = <<>>
    /\ disallowedList \in Patterns
    /\ fpc = "idle"
    /\ filtered = NoTypes
    /\ SwapIdle
    /\ TerminationIdle
    /\ FunIdle
    /\ ManagerIdle
    /\ Alive
    /\ PairIdle

\* return id, err: the deferred calls run next
LaunchFinish(id, err) ==
    /\ launchRet' = [id |-> id, err |-> err]
    /\ lpc' = "defers"

\* ltData, err := i.createLaunchTemplateData(): the image is described (a
\* failure is only logged), then the group's launch template version if the
\* group has one
CreateLaunchTemplateData ==
    /\ lpc = "createLaunchTemplateData"
    /\ \E imageOk \in BOOLEAN :
         LET described == Append(launchCalls, Call("DescribeImages", OdId, 0, imageOk)) IN
         IF hasLaunchTemplate
         THEN \E ok \in BOOLEAN :
                /\ launchCalls' = Append(described,
                       Call("DescribeLaunchTemplateVersions", OdId, 0, ok))
                /\ IF ok
                   THEN /\ lpc' = "createFleetLaunchTemplate"
                        /\ UNCHANGED launchRet
                   ELSE LaunchFinish(Nil, CloudError("DescribeLaunchTemplateVersions"))
         ELSE /\ launchCalls' = described
              /\ lpc' = "createFleetLaunchTemplate"
              /\ UNCHANGED launchRet
    /\ UNCHANGED <<templates, templateData, hasLaunchTemplate, createErr, lt, ltDefers, instanceTypes, resp,
                   launches, outsideLaunch>>

\* lt, err := i.createFleetLaunchTemplate(ltData); defer i.deleteLaunchTemplate(lt)
CreateFleetLaunchTemplate ==
    /\ lpc = "createFleetLaunchTemplate"
    /\ \E err \in CreateLaunchTemplateErrors(ltName(OdId)) :
         LET r == createFleetLaunchTemplate(OdId, err) IN
         /\ launchCalls' = Append(launchCalls,
                Call("CreateLaunchTemplate", ltName(OdId), 0, err = NoError))
         /\ templates' = IF err = NoError THEN templates \cup {ltName(OdId)} ELSE templates
         /\ templateData' = storedTemplateData(err, templateData, {launches})
         /\ createErr' = err
         /\ IF r.err # NoError
            THEN /\ LaunchFinish(Nil, r.err)
                 /\ UNCHANGED <<lt, ltDefers>>
            ELSE /\ lt' = r.lt
                 /\ ltDefers' = registerDeferred(ltDefers, "deleteLaunchTemplate")
                 /\ lpc' = "getCompatibleTypes"
                 /\ UNCHANGED launchRet
    /\ UNCHANGED <<hasLaunchTemplate, instanceTypes, resp, launches, outsideLaunch>>

\* instanceTypes, err := i.getCompatibleSpotInstanceTypesListSortedAscendingByPrice(..)
GetCompatibleTypes ==
    /\ lpc = "getCompatibleTypes"
    /\ \E r \in getCompatibleSpotInstanceTypesListSortedAscendingByPrice(
                    ref, catalog, allowedList, disallowedList) :
         /\ filtered' = r
         /\ instanceTypes' = r.types
         /\ IF r.err # NoError
            THEN LaunchFinish(Nil, r.err)
            ELSE /\ lpc' = "CreateFleet"
                 /\ UNCHANGED launchRet
    /\ UNCHANGED <<templates, templateData, hasLaunchTemplate, createErr, lt, ltDefers, resp, launchCalls,
                   launches, swapVars, termVars, filterInputs, funVars, managerVars, deathVars, pairVars>>

\* the id launchSpotReplacement takes from the response: the first id of the
\* first entry of resp.Instances
launchedInstanceId(r) ==
    IF Len(r.Instances) > 0 /\ Len(r.Instances[1].InstanceIds) > 0
    THEN r.Instances[1].InstanceIds[1]
    ELSE Nil

\* a request that failed is sent again
nextAfterCreateFleet_Retry(id) == IF id = Nil THEN "CreateFleet" ELSE "defers"

\* after CreateFleet launchSpotReplacement returns, whatever the outcome
nextAfterCreateFleet(id) == "defers"

\* resp, err := i.region.services.ec2.CreateFleet(cfi), and the return
CreateFleet ==
    /\ lpc = "CreateFleet"
    /\ \/ /\ launchCalls' = Append(launchCalls,
                 Call("CreateFleet", lt, Len(instanceTypes), FALSE))
          /\ launchRet' = [id |-> Nil, err |-> CloudError("CreateFleet")]
          /\ lpc' = nextAfterCreateFleet(Nil)
          /\ UNCHANGED resp
       \/ \E r \in FleetResponses :
            LET id == launchedInstanceId(r) IN
            /\ launchCalls' = Append(launchCalls,
                   Call("CreateFleet", lt, Len(instanceTypes), TRUE))
            /\ resp' = r
            /\ launchRet' = IF id # Nil THEN [id |-> id, err |-> NoError]
                            ELSE [id |-> Nil, err |-> LaunchError]
            /\ lpc' = nextAfterCreateFleet(id)
    /\ UNCHANGED <<templates, templateData, hasLaunchTemplate, createErr, lt, ltDefers, instanceTypes, launches,
                   outsideLaunch>>

\* the deferred call dropped without calling the cloud
DeleteLaunchTemplate_NotIssued ==
    /\ lpc = "defers"
    /\ ltDefers # <<>>
    /\ ltDefers' = Tail(ltDefers)
    /\ UNCHANGED <<templates, templateData, hasLaunchTemplate, createErr, lpc, lt, instanceTypes, resp, launchRet,
                   launchCalls, launches, outsideLaunch>>

\* deferred i.deleteLaunchTemplate(lt): a failure is only logged
DeleteLaunchTemplate ==
    /\ lpc = "defers"
    /\ ltDefers # <<>>
    /\ Head(ltDefers) = "deleteLaunchTemplate"
    /\ \E ok \in BOOLEAN :
         /\ launchCalls' = Append(launchCalls, Call("DeleteLaunchTemplate", lt, 0, ok))
         /\ templates' = IF ok THEN templates \ {lt} ELSE templates
         /\ templateData' = IF ok THEN {} ELSE templateData
    /\ ltDefers' = Tail(ltDefers)
    /\ UNCHANGED <<hasLaunchTemplate, createErr, lpc, lt, instanceTypes, resp, launchRet, launches,
                   outsideLaunch>>

\* every deferred call has run: launchSpotReplacement returns
LaunchReturn ==
    /\ lpc = "defers"
    /\ ltDefers = <<>>
    /\ lpc' = "done"
    /\ UNCHANGED <<templates, templateData, hasLaunchTemplate, createErr, lt, ltDefers, instanceTypes, resp,
                   launchRet, launchCalls, launches, outsideLaunch>>

\* a later run attempts the replacement of the same instance again
NextLaunch ==
    /\ lpc = "done"
    /\ launches + 1 < MaxLaunches
    /\ launches' = launches + 1
    /\ lpc' = "createLaunchTemplateData"
    /\ createErr' = NoError
    /\ lt' = Nil
    /\ instanceTypes' = <<>>
    /\ resp' = NoResponse
    /\ launchRet' = NoResult
    /\ launchCalls' = <<>>
    /\ filtered' = NoTypes
    /\ UNCHANGED <<templates, templateData, hasLaunchTemplate, ltDefers, swapVars, termVars, filterInputs, funVars, managerVars, deathVars, pairVars>>

NextLaunchStep ==
    \/ CreateLaunchTemplateData
    \/ CreateFleetLaunchTemplate
    \/ GetCompatibleTypes
    \/ CreateFleet
    \/ DeleteLaunchTemplate
    \/ LaunchReturn
    \/ NextLaunch

SpecLaunch == InitLaunch /\ [][NextLaunchStep]_vars

\* ---- launchSpotReplacement has returned
LaunchReturned == lpc = "done"
TemplateObtained == lt # Nil
DeleteIdx == Idx(launchCalls, "DeleteLaunchTemplate", ltName(OdId))
FleetIdx == Idx(launchCalls, "CreateFleet", ltName(OdId))

\* C11 (as stated): once the temporary launch template has been created or
\* found to exist, DeleteLaunchTemplate is issued for it exactly once before
\* launchSpotReplacement returns, and after the return no temporary template
\* of the instance remains.  The call is issued, but a DeleteLaunchTemplate
\* that fails is only logged and leaves the template behind.
C11_NoTemplateRemains ==
    (LaunchReturned /\ TemplateObtained) =>
        /\ Cardinality(DeleteIdx) = 1
        /\ ltName(OdId) \notin templates

\* C11 (amended): once the temporary launch template has been created or found
\* to exist, DeleteLaunchTemplate is issued for it exactly once, as the last
\* call before launchSpotReplacement returns, on every path (no compatible
\* type, CreateFleet error, CreateFleet answering only errors, success); it is
\* never issued when no template name was obtained; after the return the
\* template remains exactly when that one DeleteLaunchTemplate call failed.
C11_DeleteIssuedOnceOnEveryPath ==
    /\ Cardinality(DeleteIdx) <= 1
    /\ ~TemplateObtained => DeleteIdx = {}
    /\ (LaunchReturned /\ TemplateObtained) =>
          /\ DeleteIdx = {Len(launchCalls)}
          /\ (ltName(OdId) \in templates) <=> ~launchCalls[Len(launchCalls)].ok

\* CreateFleet answered with errors only, the template was deleted, and the
\* launch has returned its failure
C11_Witness ==
    /\ LaunchReturned
    /\ FleetIdx # {}
    /\ resp.Instances = <<>>
    /\ resp.Errors # <<>>
    /\ launchRet.err = LaunchError
    /\ Succeeded(launchCalls, "DeleteLaunchTemplate", ltName(OdId))
    /\ templates = {}

\* ---- what CreateLaunchTemplate answered
NameCollision == Contains(createErr, "AlreadyExistsException")
CreateRefused == createErr # NoError /\ ~NameCollision
PastTheFilter == lpc \in {"CreateFleet", "defers", "done"} /\ instanceTypes # <<>>

\* C12: when CreateLaunchTemplate fails with an error containing
\* AlreadyExistsException, createFleetLaunchTemplate yields the template name
\* and no error, and the launch goes on with that existing template: it is
\* the template of the CreateFleet request issued once the filter has found
\* types, and the collision is not the error the launch returns.  Any other
\* CreateLaunchTemplate error is returned by the launch as it is, no template
\* name is obtained and CreateFleet is never called.
C12_ExistingTemplateReused ==
    /\ NameCollision =>
          /\ lt = ltName(OdId)
          /\ launchRet.err # createErr
          /\ lpc = "CreateFleet" => lt \in templates
          /\ (PastTheFilter /\ lpc # "CreateFleet") => FleetIdx # {}
    /\ CreateRefused =>
          /\ lt = Nil
          /\ lpc \in {"defers", "done"}
          /\ launchRet = [id |-> Nil, err |-> createErr]
          /\ ~(\E k \in 1..Len(launchCalls) : launchCalls[k].op = "CreateFleet")

\* the name was already in use, and the fleet launched from the existing
\* template returned an instance
C12_Witness ==
    /\ LaunchReturned
    /\ NameCollision
    /\ Succeeded(launchCalls, "CreateFleet", ltName(OdId))
    /\ launchRet = [id |-> SpotId, err |-> NoError]

\* ---- the launch requests of one invocation
LaunchRequests ==
    {k \in 1..Len(launchCalls) : launchCalls[k].op \in {"CreateFleet", "RunInstances"}}

\* C13: launchSpotReplacement issues CreateFleet at most once per invocation
\* and no other launch request; it returns an instance id, one the response
\* carries and without an error, exactly when CreateFleet succeeded and its
\* response carries an instance id; when the CreateFleet call fails or the
\* response carries no instance id it returns an error and no instance id,
\* without a second request.
C13_OneFleetRequest ==
    /\ Cardinality(LaunchRequests) <= 1
    /\ LaunchRequests \subseteq FleetIdx
    /\ LaunchReturned =>
          /\ launchRet.id # Nil <=>
                (Succeeded(launchCalls, "CreateFleet", ltName(OdId)) /\ ResponseIds(resp) # {})
          /\ launchRet.id # Nil =>
                (launchRet.id \in ResponseIds(resp) /\ launchRet.err = NoError)
          /\ launchRet.id = Nil => launchRet.err # NoError
          /\ Failed(launchCalls, "CreateFleet", ltName(OdId)) =>
                launchRet.err = CloudError("CreateFleet")
          /\ (Succeeded(launchCalls, "CreateFleet", ltName(OdId)) /\ ResponseIds(resp) = {}) =>
                launchRet.err = LaunchError

\* the one CreateFleet request was answered with an entry without instance
\* ids next to its errors, and the launch returned the launch failure
C13_Witness ==
    /\ LaunchReturned
    /\ Cardinality(FleetIdx) = 1
    /\ resp.Instances = <<[InstanceIds |-> <<>>]>>
    /\ resp.Errors # <<>>
    /\ launchRet = [id |-> Nil, err |-> LaunchError]

\* =====================================================================
\* SpotTermination.executeAction: the reaction to an interruption notice or
\* a rebalance recommendation for a spot instance (spot_termination.go)
\* =====================================================================

\* largest SleepMultiplier a SpotTermination is given
MaxSleepMultiplier == 2

\* minutes of delayedTermination's sleep, before the multiplier
TerminationDelayMinutes == 14

\* the detail types of the two notices
InstanceRebalanceRecommendationCode == "EC2 Instance Rebalance Recommendation"
SpotInstanceInterruptionWarningCode == "EC2 Spot Instance Interruption Warning"

\* the values of the termination notification action; a group's tag may
\* carry any other string
TerminationNotificationActions == {"auto", "terminate", "detach", "other"}

LifecycleTransitions ==
    {"autoscaling:EC2_INSTANCE_LAUNCHING", "autoscaling:EC2_INSTANCE_TERMINATING"}

\* ShouldDecrementDesiredCapacity of the detach and terminate requests
ShouldDecrement_True == TRUE
ShouldDecrementDesiredCapacity == FALSE

\* a call of executeAction: arg is ShouldDecrementDesiredCapacity for the two
\* group requests, the minutes slept for Sleep, and 0 otherwise
TermCall(op, id, arg, ok) == [op |-> op, id |-> id, arg |-> arg, ok |-> ok]

InitTermination ==
    /\ terminationNotificationAction \in TerminationNotificationActions
    /\ eventType \in {InstanceRebalanceRecommendationCode,
                      SpotInstanceInterruptionWarningCode}
    /\ SleepMultiplier \in 0..MaxSleepMultiplier
    /\ LifecycleHooks \in SUBSET LifecycleTransitions
    /\ group \in [DesiredCapacity : 1..MaxCap, Instances : SUBSET {SpotId, OdId}]
    /\ group.DesiredCapacity >= Cardinality(group.Instances)
    /\ notified \in [Tags : SUBSET {"launched-for-asg"}, State : {"running"}]
    /\ atNotice = [group |-> group, notified |-> notified]
    /\ tpc = "getAsgName"
    /\ termAsgName = Nil
    /\ termRet = NoError
    /\ termCalls = <<>>
    /\ SwapIdle
    /\ LaunchIdle
    /\ FilterIdle
    /\ FunIdle
    /\ ManagerIdle
    /\ Alive
    /\ PairIdle

\* return err
TermFinish(err) ==
    /\ termRet' = err
    /\ tpc' = "done"

\* the group name is returned for any instance, member or not
getAsgName_AnyInstance(id, members) == GroupName

\* getAsgName: the name of the group of the first entry, "" when
\* DescribeAutoScalingInstances returns no entry
getAsgName(id, members) == IF id \in members THEN GroupName ELSE Nil

\* the switch of executeAction on terminationNotificationAction
actionBranch(action) ==
    CASE action = "detach" -> "detachInstance"
      [] action = "terminate" -> "terminateInstance"
      [] OTHER -> "asgHasTerminationLifecycleHook"

\* asgName, err := s.getAsgName(instanceID), and the switch
GetAsgName ==
    /\ tpc = "getAsgName"
    /\ \E ok \in BOOLEAN :
         /\ termCalls' = Append(termCalls,
                TermCall("DescribeAutoScalingInstances", SpotId, 0, ok))
         /\ IF ~ok
            THEN /\ TermFinish(CloudError("DescribeAutoScalingInstances"))
                 /\ UNCHANGED termAsgName
            ELSE LET name == getAsgName(SpotId, group.Instances) IN
                 /\ termAsgName' = name
                 /\ IF name = Nil
                    THEN TermFinish(NoError)
                    ELSE /\ tpc' = actionBranch(terminationNotificationAction)
                         /\ UNCHANGED termRet
    /\ UNCHANGED <<terminationNotificationAction, eventType, SleepMultiplier,
                   LifecycleHooks, group, notified, atNotice, outsideTermination>>

\* a hook is assumed when DescribeLifecycleHooks fails
asgHasTerminationLifecycleHook_FailClosed(ok, hooks) ==
    ~ok \/ \E t \in hooks : t = "autoscaling:EC2_INSTANCE_TERMINATING"

\* asgHasTerminationLifecycleHook: false when DescribeLifecycleHooks fails
asgHasTerminationLifecycleHook(ok, hooks) ==
    ok /\ \E t \in hooks : t = "autoscaling:EC2_INSTANCE_TERMINATING"

\* the group after one of its members was detached or terminated
removeMember(g, id, decrement) ==
    [DesiredCapacity |-> IF decrement THEN g.DesiredCapacity - 1 ELSE g.DesiredCapacity,
     Instances |-> g.Instances \ {id}]

\* default branch of the switch: s.asgHasTerminationLifecycleHook(&asgName)
AsgHasTerminationLifecycleHook ==
    /\ tpc = "asgHasTerminationLifecycleHook"
    /\ \E ok \in BOOLEAN :
         /\ termCalls' = Append(termCalls,
                TermCall("DescribeLifecycleHooks", termAsgName, 0, ok))
         /\ tpc' = IF asgHasTerminationLifecycleHook(ok, LifecycleHooks)
                   THEN "terminateInstance" ELSE "detachInstance"
    /\ UNCHANGED <<terminationNotificationAction, eventType, SleepMultiplier,
                   LifecycleHooks, group, notified, atNotice, termAsgName, termRet,
                   outsideTermination>>

\* s.terminateInstance(instanceID, asgName); return nil
TerminateInstance ==
    /\ tpc = "terminateInstance"
    /\ \E ok \in BOOLEAN :
         LET terminated == ok /\ SpotId \in group.Instances IN
         /\ termCalls' = Append(termCalls,
                TermCall("TerminateInstanceInAutoScalingGroup", SpotId,
                         ShouldDecrementDesiredCapacity, terminated))
         /\ group' = IF terminated
                     THEN removeMember(group, SpotId, ShouldDecrementDesiredCapacity)
                     ELSE group
         /\ notified' = IF terminated THEN [notified EXCEPT !.State = "shutting-down"]
                        ELSE notified
    /\ TermFinish(NoError)
    /\ UNCHANGED <<terminationNotificationAction, eventType, SleepMultiplier,
                   LifecycleHooks, atNotice, termAsgName, outsideTermination>>

\* the tag deletion and the delayed termination follow a failed detach too
nextAfterDetach_IgnoringFailure(detached, type) ==
    IF type # InstanceRebalanceRecommendationCode THEN "deleteTag" ELSE "done"

\* the tag deletion and the delayed termination follow for every notice
nextAfterDetach_IgnoringEventType(detached, type) ==
    IF detached THEN "deleteTag" ELSE "done"

\* detachInstance after DetachInstances: return detachErr; the tag deletion
\* and the delayed termination unless the notice is a rebalance recommendation
nextAfterDetach(detached, type) ==
    IF detached /\ type # InstanceRebalanceRecommendationCode THEN "deleteTag" ELSE "done"

\* s.detachInstance(instanceID, asgName, eventType), up to DetachInstances
DetachInstance ==
    /\ tpc = "detachInstance"
    /\ \E ok \in BOOLEAN :
         LET detached == ok /\ SpotId \in group.Instances IN
         /\ termCalls' = Append(termCalls,
                TermCall("DetachInstances", SpotId, ShouldDecrementDesiredCapacity,
                         detached))
         /\ group' = IF detached
                     THEN removeMember(group, SpotId, ShouldDecrementDesiredCapacity)
                     ELSE group
         /\ tpc' = nextAfterDetach(detached, eventType)
    /\ termRet' = NoError
    /\ UNCHANGED <<terminationNotificationAction, eventType, SleepMultiplier,
                   LifecycleHooks, notified, atNotice, termAsgName, outsideTermination>>

\* s.deleteTagInstanceLaunchedForAsg(instanceID): the result is dropped
DeleteTagInstanceLaunchedForAsg ==
    /\ tpc = "deleteTag"
    /\ \E ok \in BOOLEAN :
         /\ termCalls' = Append(termCalls, TermCall("DeleteTags", SpotId, 0, ok))
         /\ notified' = IF ok
                        THEN [notified EXCEPT !.Tags = @ \ {"launched-for-asg"}]
                        ELSE notified
    /\ tpc' = "delayedTermination"
    /\ UNCHANGED <<terminationNotificationAction, eventType, SleepMultiplier,
                   LifecycleHooks, group, atNotice, termAsgName, termRet,
                   outsideTermination>>

\* s.delayedTermination(instanceID, 14): the sleep, then TerminateInstances;
\* the result is dropped and executeAction returns nil
DelayedTermination ==
    /\ tpc = "delayedTermination"
    /\ \E ok \in BOOLEAN :
         /\ termCalls' = termCalls \o
                <<TermCall("Sleep", SpotId, TerminationDelayMinutes * SleepMultiplier, TRUE),
                  TermCall("TerminateInstances", SpotId, 0, ok)>>
         /\ notified' = IF ok THEN [notified EXCEPT !.State = "shutting-down"]
                        ELSE notified
    /\ TermFinish(NoError)
    /\ UNCHANGED <<terminationNotificationAction, eventType, SleepMultiplier,
                   LifecycleHooks, group, atNotice, termAsgName, outsideTermination>>

NextTermination ==
    \/ GetAsgName
    \/ AsgHasTerminationLifecycleHook
    \/ TerminateInstance
    \/ DetachInstance
    \/ DeleteTagInstanceLaunchedForAsg
    \/ DelayedTermination

SpecTermination == InitTermination /\ [][NextTermination]_vars

\* ---- the calls of executeAction
TermIdx(op) == {k \in 1..Len(termCalls) : termCalls[k].op = op}
TermIssued(op) == TermIdx(op) # {}
ActionReturned == tpc = "done"
OwnerFound == termAsgName # Nil
HasTerminatingHook == "autoscaling:EC2_INSTANCE_TERMINATING" \in LifecycleHooks
HookLookupOk == \E k \in TermIdx("DescribeLifecycleHooks") : termCalls[k].ok
GroupRequests == TermIdx("TerminateInstanceInAutoScalingGroup") \cup TermIdx("DetachInstances")

DetachPath == TermIssued("DetachInstances")
IsRebalance == eventType = InstanceRebalanceRecommendationCode
AfterDetach(k) == SubSeq(termCalls, k + 1, Len(termCalls))
CleanUpOps == <<"DeleteTags", "Sleep", "TerminateInstances">>
InstanceRequests ==
    TermIdx("DeleteTags") \cup TermIdx("Sleep") \cup TermIdx("TerminateInstances")

\* C15: on the detach path of a notice that is not a rebalance recommendation
\* the calls follow in the order DetachInstances, DeleteTags of
\* launched-for-asg, a sleep of 14 minutes times SleepMultiplier,
\* TerminateInstances, all for the notified instance and whatever DeleteTags
\* answered; after a failed DetachInstances none of the three follows, and
\* none of them is issued without a DetachInstances before it.
C15_DetachThenDelayedTermination ==
    ~IsRebalance =>
        /\ ~DetachPath => InstanceRequests = {}
        /\ \A k \in TermIdx("DetachInstances") :
              LET after == AfterDetach(k) IN
              /\ ~termCalls[k].ok => after = <<>>
              /\ Len(after) <= Len(CleanUpOps)
              /\ \A j \in 1..Len(after) :
                    after[j].op = CleanUpOps[j] /\ after[j].id = termCalls[k].id
              /\ (termCalls[k].ok /\ ActionReturned) =>
                    /\ Len(after) = Len(CleanUpOps)
                    /\ after[2].arg = TerminationDelayMinutes * SleepMultiplier

\* an interruption warning with action "detach" and SleepMultiplier 1: the
\* instance was detached, its tag deletion failed, and it was terminated
\* after 14 minutes
C15_Witness ==
    /\ ActionReturned
    /\ eventType = SpotInstanceInterruptionWarningCode
    /\ terminationNotificationAction = "detach"
    /\ SleepMultiplier = 1
    /\ Len(termCalls) = 5
    /\ termCalls[2].op = "DetachInstances" /\ termCalls[2].ok
    /\ termCalls[3].op = "DeleteTags" /\ ~termCalls[3].ok
    /\ termCalls[4] = TermCall("Sleep", SpotId, TerminationDelayMinutes, TRUE)
    /\ termCalls[5] = TermCall("TerminateInstances", SpotId, 0, TRUE)
    /\ notified.State = "shutting-down"

\* C16: for a rebalance recommendation handled on the detach path (action
\* "detach", or the default action when no terminating hook was found) the
\* one DetachInstances is the only mutating call and the last call: no
\* DeleteTags, no sleep and no TerminateInstances follows, and the instance
\* keeps its tags and its state.
C16_RebalanceDetachesOnly ==
    IsRebalance =>
        /\ InstanceRequests = {}
        /\ DetachPath =>
              /\ TermIdx("DetachInstances") = {Len(termCalls)}
              /\ notified = atNotice.notified
              /\ ~TermIssued("TerminateInstanceInAutoScalingGroup")
              /\ ActionReturned
        /\ (ActionReturned /\ OwnerFound /\ terminationNotificationAction = "detach") =>
              DetachPath

\* a rebalance recommendation under "auto" for a group without a terminating
\* hook: the instance was detached and nothing else was done to it
C16_Witness ==
    /\ ActionReturned
    /\ IsRebalance
    /\ terminationNotificationAction = "auto"
    /\ ~HasTerminatingHook
    /\ HookLookupOk
    /\ Len(termCalls) = 3
    /\ termCalls[3].op = "DetachInstances" /\ termCalls[3].ok
    /\ SpotId \notin group.Instances
    /\ notified = atNotice.notified

\* C17: when the notified instance belongs to no auto-scaling group,
\* executeAction issues no call besides DescribeAutoScalingInstances, changes
\* neither the group nor the instance, and, the lookup having succeeded,
\* returns no error.
C17_NoGroupNoAction ==
    SpotId \notin atNotice.group.Instances =>
        /\ \A k \in 1..Len(termCalls) : termCalls[k].op = "DescribeAutoScalingInstances"
        /\ group = atNotice.group
        /\ notified = atNotice.notified
        /\ ActionReturned =>
              /\ Len(termCalls) = 1
              /\ termCalls[1].ok => termRet = NoError

\* a notice with action "terminate" for an instance outside every group: the
\* lookup succeeded and executeAction returned nil
C17_Witness ==
    /\ ActionReturned
    /\ SpotId \notin atNotice.group.Instances
    /\ atNotice.group.Instances # {}
    /\ terminationNotificationAction = "terminate"
    /\ termCalls = <<TermCall("DescribeAutoScalingInstances", SpotId, 0, TRUE)>>
    /\ termRet = NoError

\* C18 (as stated, for executeAction): whenever a terminate call fails while
\* the termination notice is handled, executeAction returns a non-nil error
\* to its invoker.
C18_FailedCallSurfaced ==
    (ActionReturned /\ \E k \in 1..Len(termCalls) :
        /\ termCalls[k].op \in {"TerminateInstanceInAutoScalingGroup", "TerminateInstances"}
        /\ ~termCalls[k].ok)
    => termRet # NoError

\* ---- the filter applied to drawn inputs

InitFilter ==
    /\ \/ ref \in References /\ allowedList = <<>> /\ disallowedList = <<>>
       \/ ref = BaseRef /\ allowedList \in Patterns /\ disallowedList \in Patterns
    /\ catalog \in Catalogs
    /\ fpc = "start"
    /\ filtered = NoTypes
    /\ SwapIdle
    /\ LaunchIdle
    /\ TerminationIdle
    /\ FunIdle
    /\ ManagerIdle
    /\ Alive
    /\ PairIdle

\* the filter runs on the reference, the catalog and the two lists
ApplyFilter ==
    /\ fpc = "start"
    /\ filtered' \in getCompatibleSpotInstanceTypesListSortedAscendingByPrice(
                        ref, catalog, allowedList, disallowedList)
    /\ fpc' = "done"
    /\ UNCHANGED <<ref, catalog, allowedList, disallowedList, outsideFilter>>

NextFilter == ApplyFilter

SpecFilter == InitFilter /\ [][NextFilter]_vars

\* ---- the filter's result
FilterDone == fpc = "done"
Returned == {filtered.types[k] : k \in 1..Len(filtered.types)}
CatalogTypes == {catalog[name] : name \in DOMAIN catalog}
EffectivePrice(t) == calculatePrice(ref, t)
IntelClass(cpu) == Contains(cpu, "Intel") \/ Contains(cpu, "AMD") \/ Contains(cpu, "Variable")
ArmClass(cpu) == Contains(cpu, "AWS")

\* C19: the filter returns exactly the catalog types that satisfy all six
\* predicates (name match, price, EBS throughput, class, storage,
\* virtualization), each once: every returned type passes each of them, in
\* particular it has at least the reference's vCPUs, memory and GPUs and a
\* processor of the reference's class (Intel and AMD one class, ARM another),
\* and no catalog type that passes all six is left out.
C19_ExactlyTheCompatibleTypes ==
    FilterDone =>
        /\ Returned = {t \in CatalogTypes :
                          isAcceptable(ref, t, allowedList, disallowedList)}
        /\ Len(filtered.types) = Cardinality(Returned)
        /\ \A t \in Returned :
              /\ t.vCPU >= ref.typeInfo.vCPU
              /\ t.memory >= ref.typeInfo.memory
              /\ t.GPU >= ref.typeInfo.GPU
              /\ t.EBSThroughput >= ref.typeInfo.EBSThroughput
              /\ \/ IntelClass(t.PhysicalProcessor) /\ IntelClass(ref.typeInfo.PhysicalProcessor)
                 \/ ArmClass(t.PhysicalProcessor) /\ ArmClass(ref.typeInfo.PhysicalProcessor)
              /\ EffectivePrice(t) > 0 /\ EffectivePrice(t) <= ref.price
              /\ IF allowedList # <<>>
                 THEN \E k \in 1..Len(allowedList) : Match(allowedList[k], t.instanceType)
                 ELSE \A k \in 1..Len(disallowedList) :
                         ~Match(disallowedList[k], t.instanceType)

\* of two catalog types the filter returned the one with enough GPUs and
\* left out the one whose processor is of the other class
C19_Witness ==
    /\ FilterDone
    /\ Cardinality(CatalogTypes) = 2
    /\ Cardinality(Returned) = 1
    /\ \E t \in CatalogTypes \ Returned :
          /\ ArmClass(t.PhysicalProcessor)
          /\ t.GPU > ref.typeInfo.GPU
    /\ filtered.err = NoError

\* C20 (as stated): every type the filter returns has an effective price
\* (spot price in the reference's zone, plus the EBS surcharge when the
\* reference is EBS-optimized) above 0 and at most the reference's price
\* ceiling, and a type with no spot price, or a spot price of 0, in the
\* reference's zone is never returned.
C20_PricedInZoneWithinCeiling ==
    FilterDone =>
        \A t \in Returned :
            /\ EffectivePrice(t) > 0
            /\ EffectivePrice(t) <= ref.price
            /\ RefZone \in DOMAIN t.pricing.spot
            /\ t.pricing.spot[RefZone] > 0

\* ---- the order of the returned list

\* the place of a type name in sort.Strings' order
NameIndex(name) == CHOOSE k \in 1..Len(NameOrder) : NameOrder[k] = name

\* C21: the returned list is non-decreasing in effective price: of two
\* consecutive entries the later one is not cheaper, so the first entry is
\* a cheapest compatible type of the catalog.
C21_AscendingByPrice ==
    FilterDone =>
        /\ \A k \in 1..(Len(filtered.types) - 1) :
              EffectivePrice(filtered.types[k]) <= EffectivePrice(filtered.types[k + 1])
        /\ Len(filtered.types) > 0 =>
              \A t \in CatalogTypes :
                 isAcceptable(ref, t, allowedList, disallowedList)
                    => EffectivePrice(filtered.types[1]) <= EffectivePrice(t)

\* two types were returned, the later key of the catalog first because it
\* is the cheaper one
C21_Witness ==
    /\ FilterDone
    /\ Len(filtered.types) = 2
    /\ EffectivePrice(filtered.types[1]) < EffectivePrice(filtered.types[2])
    /\ NameIndex(filtered.types[1].instanceType) > NameIndex(filtered.types[2].instanceType)

\* C22 (as stated): two returned entries of equal effective price appear in
\* ascending order of type name.
C22_TiesByTypeName ==
    FilterDone =>
        \A k, l \in 1..Len(filtered.types) :
            k < l /\ EffectivePrice(filtered.types[k]) = EffectivePrice(filtered.types[l])
                => NameIndex(filtered.types[k].instanceType)
                       < NameIndex(filtered.types[l].instanceType)

\* ---- the filter's error in the launch

\* the launch has the filter's answer: the template was obtained and the
\* call that follows it has returned
FilterReturned == lt # Nil /\ lpc # "getCompatibleTypes"
NoneCompatible ==
    ~(\E t \in CatalogTypes : isAcceptable(ref, t, allowedList, disallowedList))
FleetRequested == \E k \in 1..Len(launchCalls) : launchCalls[k].op = "CreateFleet"

\* C23: the filter returns an error, and no list, exactly when no type of
\* the catalog satisfies all predicates, an empty catalog included; it
\* returns no empty list without an error and no error with a list; and on
\* that error launchSpotReplacement returns it without a CreateFleet request.
C23_ErrorIffNoneCompatible ==
    FilterReturned =>
        /\ filtered.err # NoError <=> NoneCompatible
        /\ catalog = <<>> => filtered.err # NoError
        /\ filtered.err # NoError <=> filtered.types = <<>>
        /\ filtered.err # NoError =>
              /\ filtered.err = NoTypesError
              /\ ~FleetRequested
              /\ lpc \in {"defers", "done"}
              /\ launchRet = [id |-> Nil, err |-> NoTypesError]

\* the catalog holds types, none of them compatible, and the launch returned
\* the filter's error after deleting the template
C23_Witness ==
    /\ LaunchReturned
    /\ FilterReturned
    /\ catalog # <<>>
    /\ NoneCompatible
    /\ launchRet.err = NoTypesError
    /\ DeleteIdx # {}

\* =====================================================================
\* generateTagsList: the tags of the instance to launch
\* (part_001, and the earlier version of instance.go)
\* =====================================================================

\* largest number of tags on the reference instance
MaxTags == 3

\* tag keys, as the pieces strings.HasPrefix tells apart
HasPrefix(s, prefix) ==
    Len(s) >= Len(prefix) /\ SubSeq(s, 1, Len(prefix)) = prefix

IdentifyingKeys ==
    {<<"launched-by-autospotting">>, <<"launched-for-asg">>,
     <<"launched-for-replacing-instance">>}
TemplateKeys == {<<"LaunchTemplateID">>, <<"LaunchTemplateVersion">>}
ConfigurationKeys == {<<"LaunchConfigurationName">>}
ReservedKeys == IdentifyingKeys \cup TemplateKeys \cup ConfigurationKeys

\* the keys a reference instance may carry, in the order of i.Tags
KeyOrder ==
    <<<<"Name">>,
      <<"aws:", "autoscaling:groupName">>,
      <<"team", "aws:", "owner">>,
      <<"launched-by-autospotting">>,
      <<"launched-for-asg">>,
      <<"launched-for-replacing-instance">>,
      <<"LaunchTemplateID">>,
      <<"LaunchTemplateVersion">>,
      <<"LaunchConfigurationName">>>>

Tag(key, value) == [Key |-> key, Value |-> value]

\* i.Tags: at most MaxTags tags of distinct keys, with values of their own
InstanceTags ==
    {LET Carried(key) == key \in keys
         held == SelectSeq(KeyOrder, Carried)
     IN  [k \in 1..Len(held) |-> Tag(held[k], "from-the-instance")] :
        keys \in {S \in SUBSET {KeyOrder[k] : k \in 1..Len(KeyOrder)} :
                     Cardinality(S) <= MaxTags}}

\* i.asg: a pointer is the set of what it points to, empty for nil
Groups ==
    [name : {GroupName},
     LaunchTemplate : {{}, {[LaunchTemplateId |-> "lt-1", Version |-> "1"]}},
     LaunchConfigurationName : {{}, {"lc-1"}}]

TagInputs == [InstanceId : {OdId}, Tags : InstanceTags, asg : Groups]

\* the one element of a non-nil pointer
Deref(p) == CHOOSE x \in p : TRUE

\* itemInSlice
itemInSlice(item, slice) == \E k \in 1..Len(slice) : slice[k] = item

tagsToSkip ==
    <<<<"launched-by-autospotting">>, <<"launched-for-asg">>,
      <<"launched-for-replacing-instance">>, <<"LaunchTemplateID">>,
      <<"LaunchTemplateVersion">>, <<"LaunchConfigurationName">>>>

\* every tag of the instance copied
filterTags_CopyAll(tags) == tags

filterTags(tags) ==
    LET Kept(tag) == ~HasPrefix(tag.Key, <<"aws:">>) /\ ~itemInSlice(tag.Key, tagsToSkip)
    IN  SelectSeq(tags, Kept)

\* the tags generateTagsList sets itself, the same in both versions
generatedTags(i) ==
    <<Tag(<<"launched-by-autospotting">>, "true"),
      Tag(<<"launched-for-asg">>, i.asg.name),
      Tag(<<"launched-for-replacing-instance">>, i.InstanceId)>>
    \o (IF i.asg.LaunchTemplate # {}
        THEN <<Tag(<<"LaunchTemplateID">>, Deref(i.asg.LaunchTemplate).LaunchTemplateId),
               Tag(<<"LaunchTemplateVersion">>, Deref(i.asg.LaunchTemplate).Version)>>
        ELSE IF i.asg.LaunchConfigurationName # {}
        THEN <<Tag(<<"LaunchConfigurationName">>, Deref(i.asg.LaunchConfigurationName))>>
        ELSE <<>>)

\* generateTagsList of part_001
generateTagsList(i) ==
    <<[ResourceType |-> "instance", Tags |-> generatedTags(i) \o filterTags(i.Tags)]>>

\* generateTagsList of instance.go: the last key of its condition is
\* spelled LaunchConfiguationName
generateTagsListOfInstance(i) ==
    LET Kept(tag) ==
            /\ ~HasPrefix(tag.Key, <<"aws:">>)
            /\ tag.Key # <<"launched-by-autospotting">>
            /\ tag.Key # <<"launched-for-asg">>
            /\ tag.Key # <<"launched-for-replacing-instance">>
            /\ tag.Key # <<"LaunchTemplateID">>
            /\ tag.Key # <<"LaunchTemplateVersion">>
            /\ tag.Key # <<"LaunchConfiguationName">>
    IN  <<[ResourceType |-> "instance", Tags |-> generatedTags(i) \o SelectSeq(i.Tags, Kept)]>>

InitTags ==
    /\ input \in TagInputs
    /\ output = <<>>
    /\ applied = FALSE
    /\ SwapIdle
    /\ LaunchIdle
    /\ TerminationIdle
    /\ FilterIdle
    /\ ManagerIdle
    /\ Alive
    /\ PairIdle

GenerateTagsList ==
    /\ ~applied
    /\ output' = generateTagsList(input)
    /\ applied' = TRUE
    /\ UNCHANGED <<input, outsideFun>>

GenerateTagsListOfInstance ==
    /\ ~applied
    /\ output' = generateTagsListOfInstance(input)
    /\ applied' = TRUE
    /\ UNCHANGED <<input, outsideFun>>

NextTags == GenerateTagsList \/ GenerateTagsListOfInstance

SpecTags == InitTags /\ [][NextTags]_vars

\* ---- the tags of the one instance-scoped specification returned
OutTags == output[1].Tags
Occurrences(key) == {k \in 1..Len(OutTags) : OutTags[k].Key = key}
Once(key, value) ==
    /\ Cardinality(Occurrences(key)) = 1
    /\ \A k \in Occurrences(key) : OutTags[k].Value = value
Absent(key) == Occurrences(key) = {}
TemplatePair ==
    /\ input.asg.LaunchTemplate # {}
    /\ Once(<<"LaunchTemplateID">>, Deref(input.asg.LaunchTemplate).LaunchTemplateId)
    /\ Once(<<"LaunchTemplateVersion">>, Deref(input.asg.LaunchTemplate).Version)
    /\ Absent(<<"LaunchConfigurationName">>)
ConfigurationName ==
    /\ input.asg.LaunchConfigurationName # {}
    /\ Once(<<"LaunchConfigurationName">>, Deref(input.asg.LaunchConfigurationName))
    /\ Absent(<<"LaunchTemplateID">>)
    /\ Absent(<<"LaunchTemplateVersion">>)

\* C24 (as stated): whatever tags the reference instance carries, the
\* instance-scoped tag set holds launched-by-autospotting=true,
\* launched-for-asg=<group> and launched-for-replacing-instance=<reference
\* id> once each, and either the launch template's id and version or the
\* launch configuration's name; no key starts with aws: and none of the six
\* reserved keys occurs a second time, copied from the reference instance.
C24_TagClosure ==
    applied =>
        /\ Len(output) = 1
        /\ output[1].ResourceType = "instance"
        /\ Once(<<"launched-by-autospotting">>, "true")
        /\ Once(<<"launched-for-asg">>, input.asg.name)
        /\ Once(<<"launched-for-replacing-instance">>, input.InstanceId)
        /\ TemplatePair \/ ConfigurationName
        /\ \A k \in 1..Len(OutTags) : ~HasPrefix(OutTags[k].Key, <<"aws:">>)
        /\ \A key \in ReservedKeys : Cardinality(Occurrences(key)) <= 1

\* =====================================================================
\* getPriceToBid and createLaunchTemplateData (part_001)
\* =====================================================================

\* largest price, in cents; prices are whole cents held in thousandths of a
\* dollar, and buffer percentages are multiples of ten, so that the
\* products below are whole thousandths
MaxCents == 10
Prices == {10 * c : c \in 0..MaxCents}
BufferPercentages == {0, 10, 50, 100}

DefaultBiddingPolicy == "normal"
AggressiveBiddingPolicy == "aggressive"
Spot == "spot"

\* math.Min
Min(x, y) == IF x < y THEN x ELSE y

\* the buffer left out: the spot price itself, capped by the ceiling
getPriceToBid_NoBuffer(conf, baseOnDemandPrice, currentSpotPrice, spotPremium) ==
    IF conf.BiddingPolicy = DefaultBiddingPolicy
    THEN baseOnDemandPrice
    ELSE Min(baseOnDemandPrice, currentSpotPrice)

\* getPriceToBid under i.region.conf
getPriceToBid(conf, baseOnDemandPrice, currentSpotPrice, spotPremium) ==
    IF conf.BiddingPolicy = DefaultBiddingPolicy
    THEN baseOnDemandPrice
    ELSE Min(baseOnDemandPrice,
             ((currentSpotPrice - spotPremium) * (100 + conf.SpotPriceBufferPercentage))
                 \div 100 + spotPremium)

BidInputs ==
    [conf : [BiddingPolicy : {DefaultBiddingPolicy, AggressiveBiddingPolicy, "custom"},
             SpotPriceBufferPercentage : BufferPercentages],
     baseOnDemandPrice : Prices,
     currentSpotPrice : Prices,
     spotPremium : {0, 20}]

InitBid ==
    /\ input \in BidInputs
    /\ output = 0
    /\ applied = FALSE
    /\ SwapIdle
    /\ LaunchIdle
    /\ TerminationIdle
    /\ FilterIdle
    /\ ManagerIdle
    /\ Alive
    /\ PairIdle

GetPriceToBid ==
    /\ ~applied
    /\ output' = getPriceToBid(input.conf, input.baseOnDemandPrice,
                               input.currentSpotPrice, input.spotPremium)
    /\ applied' = TRUE
    /\ UNCHANGED <<input, outsideFun>>

NextBid == GetPriceToBid

SpecBid == InitBid /\ [][NextBid]_vars

\* the spec's formula in thousandths of a dollar, kept in hundredths of a
\* thousandth so that no division is needed
BufferedTimes100 ==
    (input.currentSpotPrice - input.spotPremium) * (100 + input.conf.SpotPriceBufferPercentage)
        + 100 * input.spotPremium

FormatFloat(x) == ToString(x)

\* a network interface of the source template
SourceInterfaces ==
    [AssociatePublicIpAddress : {{}, {TRUE}}, DeviceIndex : {0, 1}]

\* ltData of the group's launch template version, as far as it is read
TemplateVersions ==
    [NetworkInterfaces : {<<>>} \cup {<<ni>> : ni \in SourceInterfaces}
                            \cup {<<[AssociatePublicIpAddress |-> {}, DeviceIndex |-> 0],
                                    [AssociatePublicIpAddress |-> {}, DeviceIndex |-> 1]>>},
     SecurityGroupIds : {<<>>, <<"sg-template">>},
     SecurityGroups : {<<>>, <<"web">>},
     InstanceMarketOptions : {{}, {[MarketType |-> "capacity-block"]}}]

\* i.asg.launchConfiguration, as far as it is read
LaunchConfigurations == [AssociatePublicIpAddress : {{}, {TRUE}}]

\* the instance, its group's sources, its region's configuration, and the
\* version of the group's launch template the cloud holds
AllTemplateDataInputs ==
    [SubnetId : {{}, {"subnet-1"}},
     SecurityGroups : {<<>>, <<[GroupId |-> "sg-instance"]>>},
     price : {100},
     version : TemplateVersions,
     asg : [LaunchTemplate : {{}, {[LaunchTemplateId |-> "lt-1", Version |-> "1"]}},
            launchConfiguration : {{}} \cup {{lc} : lc \in LaunchConfigurations}],
     conf : [BiddingPolicy : {DefaultBiddingPolicy, AggressiveBiddingPolicy},
             SpotPriceBufferPercentage : {10}],
     currentSpotPrice : {50, 100},
     spotPremium : {20}]

\* the version of a group without a launch template: none is read
NoVersion ==
    [NetworkInterfaces |-> <<>>, SecurityGroupIds |-> <<>>, SecurityGroups |-> <<>>,
     InstanceMarketOptions |-> {}]

TemplateDataInputs ==
    {i \in AllTemplateDataInputs : i.asg.LaunchTemplate = {} => i.version = NoVersion}

\* ec2.RequestLaunchTemplateData{}
EmptyTemplateData ==
    [NetworkInterfaces |-> <<>>, SecurityGroupIds |-> <<>>, SecurityGroups |-> <<>>,
     InstanceMarketOptions |-> {}]

convertSecurityGroups(i) ==
    [k \in 1..Len(i.SecurityGroups) |-> i.SecurityGroups[k].GroupId]

\* launchTemplateHasNetworkInterfaces: whether the version defines any
launchTemplateHasNetworkInterfaces(ltData) == Len(ltData.NetworkInterfaces) > 0

\* the network part of processLaunchTemplate, the version already fetched
processLaunchTemplate(i, retval, ltData) ==
    IF launchTemplateHasNetworkInterfaces(ltData)
    THEN [retval EXCEPT
            !.NetworkInterfaces =
                @ \o [k \in 1..Len(ltData.NetworkInterfaces) |->
                        [AssociatePublicIpAddress |->
                             ltData.NetworkInterfaces[k].AssociatePublicIpAddress,
                         SubnetId |-> i.SubnetId,
                         DeviceIndex |-> ltData.NetworkInterfaces[k].DeviceIndex,
                         Groups |-> convertSecurityGroups(i)]],
            !.SecurityGroupIds = <<>>,
            !.SecurityGroups = <<>>]
    ELSE [retval EXCEPT
            !.NetworkInterfaces = <<>>,
            !.SecurityGroupIds = @ \o ltData.SecurityGroupIds,
            !.SecurityGroups = @ \o ltData.SecurityGroups]

\* the network part of processLaunchConfiguration
processLaunchConfiguration(i, retval, lc) ==
    IF lc.AssociatePublicIpAddress # {} \/ i.SubnetId # {}
    THEN [retval EXCEPT
            !.NetworkInterfaces =
                <<[AssociatePublicIpAddress |-> lc.AssociatePublicIpAddress,
                   DeviceIndex |-> 0,
                   SubnetId |-> i.SubnetId,
                   Groups |-> convertSecurityGroups(i)]>>,
            !.SecurityGroupIds = <<>>]
    ELSE retval

\* createLaunchTemplateData; described tells whether
\* DescribeLaunchTemplateVersions returned the version
createLaunchTemplateData(i, described) ==
    LET initial == [EmptyTemplateData EXCEPT !.SecurityGroupIds = convertSecurityGroups(i)]
        afterTemplate ==
            IF i.asg.LaunchTemplate # {}
            THEN processLaunchTemplate(i, initial, i.version)
            ELSE initial
        afterConfiguration ==
            IF i.asg.launchConfiguration # {}
            THEN processLaunchConfiguration(i, afterTemplate, Deref(i.asg.launchConfiguration))
            ELSE afterTemplate
    IN  IF i.asg.LaunchTemplate # {} /\ ~described
        THEN [ltData |-> EmptyTemplateData, err |-> CloudError("DescribeLaunchTemplateVersions")]
        ELSE [ltData |->
                 [afterConfiguration EXCEPT
                     !.InstanceMarketOptions =
                         {[MarketType |-> Spot,
                           SpotOptions |-> [MaxPrice |-> FormatFloat(i.price)]]}],
              err |-> NoError]

InitTemplateData ==
    /\ input \in TemplateDataInputs
    /\ output = [ltData |-> EmptyTemplateData, err |-> NoError]
    /\ applied = FALSE
    /\ SwapIdle
    /\ LaunchIdle
    /\ TerminationIdle
    /\ FilterIdle
    /\ ManagerIdle
    /\ Alive
    /\ PairIdle

\* createLaunchTemplateData, with DescribeLaunchTemplateVersions failing or not
ApplyCreateLaunchTemplateData ==
    /\ ~applied
    /\ \E described \in BOOLEAN :
          output' = createLaunchTemplateData(input, described)
    /\ applied' = TRUE
    /\ UNCHANGED <<input, outsideFun>>

NextTemplateData == ApplyCreateLaunchTemplateData

SpecTemplateData == InitTemplateData /\ [][NextTemplateData]_vars

\* ---- the data createLaunchTemplateData returned
Data == output.ltData
DataReturned == applied /\ output.err = NoError
FromTemplate == input.asg.LaunchTemplate # {}
FromConfiguration == input.asg.launchConfiguration # {}

\* the launch configuration is the source of the interface
ConfigurationEmits ==
    /\ FromConfiguration
    /\ \/ Deref(input.asg.launchConfiguration).AssociatePublicIpAddress # {}
       \/ input.SubnetId # {}

\* the AssociatePublicIpAddress of the source the interfaces come from
SourceAssociatePublicIpAddress ==
    IF ConfigurationEmits
    THEN Deref(input.asg.launchConfiguration).AssociatePublicIpAddress
    ELSE input.version.NetworkInterfaces[1].AssociatePublicIpAddress

\* C25 (as stated): in the launch-template data, whatever the group's
\* sources (a launch template with or without network interfaces, a launch
\* configuration, both), NetworkInterfaces is never non-empty together with
\* a non-empty SecurityGroupIds or SecurityGroups; and when interfaces are
\* emitted there is a single one, with DeviceIndex 0, the instance's subnet
\* and security groups, and the source's AssociatePublicIpAddress.
C25_InterfacesExcludeGroups ==
    DataReturned =>
        /\ Data.NetworkInterfaces # <<>> =>
              /\ Data.SecurityGroupIds = <<>>
              /\ Data.SecurityGroups = <<>>
              /\ Len(Data.NetworkInterfaces) = 1
              /\ Data.NetworkInterfaces[1].DeviceIndex = 0
              /\ Data.NetworkInterfaces[1].SubnetId = input.SubnetId
              /\ Data.NetworkInterfaces[1].Groups = convertSecurityGroups(input)
              /\ Data.NetworkInterfaces[1].AssociatePublicIpAddress
                    = SourceAssociatePublicIpAddress

\* ---- the market options
BidPrice ==
    getPriceToBid(input.conf, input.price, input.currentSpotPrice, input.spotPremium)

\* C27 (as stated): SpotOptions.MaxPrice of the launch-template data is the
\* bid price of the configured bidding policy, the price ceiling under
\* normal and min(ceiling, (spot - premium) * (1 + bufferPct/100) + premium)
\* under aggressive, and MarketType is spot whatever the source template says.
C27_MaxPriceIsTheBid ==
    DataReturned =>
        Data.InstanceMarketOptions =
            {[MarketType |-> "spot", SpotOptions |-> [MaxPrice |-> FormatFloat(BidPrice)]]}

\* =====================================================================
\* The EBS volume type conversions (part_001)
\* =====================================================================

\* largest volume size and conversion threshold, in GiB
MaxVolumeSize == 3

unsupportedIO2Regions ==
    <<"us-gov-west-1", "us-gov-east-1", "sa-east-1", "cn-north-1", "cn-northwest-1",
      "eu-south-1", "af-south-1", "eu-west-3", "ap-northeast-3">>

supportedIO2region(region) ==
    ~(\E k \in 1..Len(unsupportedIO2Regions) : region = unsupportedIO2Regions[k])

\* an EBS device of a source, its VolumeType and VolumeSize pointers, with
\* the group's region and configured threshold
VolumeInputs ==
    [ebs : [VolumeType : {{}, {"io1"}, {"io2"}, {"gp2"}, {"gp3"}, {"standard"}},
            VolumeSize : {{}} \cup {{n} : n \in 1..MaxVolumeSize}],
     region : {"us-east-1"} \cup {unsupportedIO2Regions[k] : k \in 1..Len(unsupportedIO2Regions)},
     GP2ConversionThreshold : 1..MaxVolumeSize]

\* what a conversion gives: a VolumeType pointer, or the panic of a nil
\* pointer dereferenced
Returns(volumeType) == [panic |-> FALSE, VolumeType |-> volumeType]
Panics == [panic |-> TRUE, VolumeType |-> {}]

\* the body the three conversions share, VolumeType being non-nil
convertAfterTypeCheck(ebs, r, threshold) ==
    IF ebs.VolumeType = {"io1"} /\ supportedIO2region(r)
    THEN Returns({"io2"})
    ELSE IF ebs.VolumeType = {"gp2"}
    THEN IF ebs.VolumeSize = {} THEN Panics
         ELSE IF Deref(ebs.VolumeSize) <= threshold THEN Returns({"gp3"})
         ELSE Returns(ebs.VolumeType)
    ELSE Returns(ebs.VolumeType)

convertLaunchConfigurationEBSVolumeType(ebs, r, threshold) ==
    IF ebs.VolumeType = {} THEN Returns({})
    ELSE convertAfterTypeCheck(ebs, r, threshold)

convertLaunchTemplateEBSVolumeType(ebs, r, threshold) ==
    IF ebs.VolumeType = {} THEN Panics
    ELSE convertAfterTypeCheck(ebs, r, threshold)

convertImageEBSVolumeType(ebs, r, threshold) ==
    IF ebs.VolumeType = {} THEN Panics
    ELSE convertAfterTypeCheck(ebs, r, threshold)

InitVolumes ==
    /\ input \in VolumeInputs
    /\ output = Returns({})
    /\ applied = FALSE
    /\ SwapIdle
    /\ LaunchIdle
    /\ TerminationIdle
    /\ FilterIdle
    /\ ManagerIdle
    /\ Alive
    /\ PairIdle

ConvertLaunchConfigurationEBSVolumeType ==
    /\ ~applied
    /\ output' = convertLaunchConfigurationEBSVolumeType(
                     input.ebs, input.region, input.GP2ConversionThreshold)
    /\ applied' = TRUE
    /\ UNCHANGED <<input, outsideFun>>

ConvertLaunchTemplateEBSVolumeType ==
    /\ ~applied
    /\ output' = convertLaunchTemplateEBSVolumeType(
                     input.ebs, input.region, input.GP2ConversionThreshold)
    /\ applied' = TRUE
    /\ UNCHANGED <<input, outsideFun>>

ConvertImageEBSVolumeType ==
    /\ ~applied
    /\ output' = convertImageEBSVolumeType(
                     input.ebs, input.region, input.GP2ConversionThreshold)
    /\ applied' = TRUE
    /\ UNCHANGED <<input, outsideFun>>

NextVolumes ==
    \/ ConvertLaunchConfigurationEBSVolumeType
    \/ ConvertLaunchTemplateEBSVolumeType
    \/ ConvertImageEBSVolumeType

SpecVolumes == InitVolumes /\ [][NextVolumes]_vars

\* ---- the projected volume type
InUnsupportedRegion ==
    input.region \in {"us-gov-west-1", "us-gov-east-1", "sa-east-1", "cn-north-1",
                      "cn-northwest-1", "eu-south-1", "af-south-1", "eu-west-3",
                      "ap-northeast-3"}
SizeWithinThreshold ==
    \E n \in input.ebs.VolumeSize : n <= input.GP2ConversionThreshold
ThreeAgree ==
    LET lc == convertLaunchConfigurationEBSVolumeType(
                  input.ebs, input.region, input.GP2ConversionThreshold)
        tpl == convertLaunchTemplateEBSVolumeType(
                  input.ebs, input.region, input.GP2ConversionThreshold)
        img == convertImageEBSVolumeType(
                  input.ebs, input.region, input.GP2ConversionThreshold)
    IN  lc = tpl /\ tpl = img

\* C26 (as stated): for every EBS device of any of the three sources the
\* projected volume type is io2 exactly when the source type is io1 and the
\* region is not an unsupported one, gp3 exactly when the source type is gp2
\* and the size is at most the threshold (a size equal to it converts), and
\* the source type otherwise; and the three conversions agree on every input.
C26_VolumeTypeProjection ==
    applied =>
        /\ ~output.panic
        /\ output.VolumeType = {"io2"} <=>
              \/ input.ebs.VolumeType = {"io1"} /\ ~InUnsupportedRegion
              \/ input.ebs.VolumeType = {"io2"}
        /\ output.VolumeType = {"gp3"} <=>
              \/ input.ebs.VolumeType = {"gp2"} /\ SizeWithinThreshold
              \/ input.ebs.VolumeType = {"gp3"}
        /\ output.VolumeType \notin {{"io2"}, {"gp3"}}
              => output.VolumeType = input.ebs.VolumeType
        /\ ThreeAgree

\* =====================================================================
\* instanceManager: the per-region instance index (instance.go)
\* =====================================================================

\* goroutines that use the index, and calls they make in all
MaxGoroutines == 2
MaxCalls == 3

Goroutines == 1..MaxGoroutines
InstanceIds == {"i-a", "i-b"}

\* a map from id to instance, as the set of its values, an instance told
\* apart by the goroutine that added it; a pointer is the set of what it
\* points to
Put(m, added) == {x \in m : x.id # added.id} \cup {added}
Lookup(m, id) == {x \in m : x.id = id}

\* what is known of a value: for an id, the instance the completed writes
\* leave; for a lookup, the instance it has to return; for a write, whether
\* no write to the same id was in progress with it
Known(value) == [known |-> TRUE, value |-> value]
Unknown == [known |-> FALSE, value |-> {}]

Resting ==
    [op |-> "none", inst |-> {}, id |-> "", pc |-> "idle", local |-> {},
     got |-> {}, expect |-> Unknown, nested |-> "none"]

\* the catalogs an index is made with: makeInstances() and
\* makeInstancesWithCatalog(catalog) with one instance
InitialCatalogs == {{}, {[id |-> "i-a", by |-> 0]}}

\* the index as made, no goroutine in a method yet
InitManager ==
    /\ \E made \in InitialCatalogs :
          /\ manager = [catalog |-> made, readers |-> 0, writer |-> 0, calls |-> 0]
          /\ settled = [id \in InstanceIds |-> Known(Lookup(made, id))]
    /\ goroutines = [g \in Goroutines |-> Resting]
    /\ SwapIdle
    /\ LaunchIdle
    /\ TerminationIdle
    /\ FilterIdle
    /\ FunIdle
    /\ Alive
    /\ PairIdle

\* the first step of a method inside its lock
firstAccess(op) ==
    CASE op = "add" -> "load"
      [] op = "make" -> "replace"
      [] op = "instances" -> "range"
      [] OTHER -> "read"

\* the methods entered without taking the lock
afterCall_Unlocked(op) == firstAccess(op)

\* where a method starts: add and make with Lock, get, count and dump with
\* RLock, the goroutine of instances with RLock
afterCall(op) == IF op \in {"add", "make"} THEN "Lock" ELSE "RLock"

\* the ids a write in progress writes to
Written(r) ==
    IF r.pc = "idle" THEN {}
    ELSE IF r.op = "make" THEN InstanceIds
    ELSE IF r.op = "add" THEN {x.id : x \in r.inst}
    ELSE {}

\* a write to ids has been called: the lookups and the writes in progress
\* on these ids no longer have a known outcome
Unsettle(gs, ids) ==
    [g \in Goroutines |->
        IF \/ gs[g].op = "get" /\ gs[g].pc # "idle" /\ gs[g].id \in ids
           \/ Written(gs[g]) \cap ids # {}
        THEN [gs[g] EXCEPT !.expect = Unknown]
        ELSE gs[g]]
Undisturbed(g, ids) ==
    IF \E h \in Goroutines \ {g} : Written(goroutines[h]) \cap ids # {}
    THEN Unknown ELSE Known({})

\* a goroutine calls add, make, get, count, dump or instances
CallMethod ==
    \E g \in Goroutines :
       /\ goroutines[g].pc = "idle"
       /\ manager.calls < MaxCalls
       /\ manager' = [manager EXCEPT !.calls = @ + 1]
       /\ LET started == Resting IN
          \/ \E id \in InstanceIds :
                /\ goroutines' =
                      [Unsettle(goroutines, {id}) EXCEPT
                         ![g] = [started EXCEPT !.op = "add",
                                                !.inst = {[id |-> id, by |-> g]},
                                                !.expect = Undisturbed(g, {id}),
                                                !.pc = afterCall("add")]]
                /\ settled' = [settled EXCEPT ![id] = Unknown]
          \/ \* add(nil): if inst == nil { return }
             /\ goroutines' = [goroutines EXCEPT ![g] = [started EXCEPT !.op = "add"]]
             /\ UNCHANGED settled
          \/ /\ goroutines' =
                   [Unsettle(goroutines, InstanceIds) EXCEPT
                      ![g] = [started EXCEPT !.op = "make",
                                             !.expect = Undisturbed(g, InstanceIds),
                                             !.pc = afterCall("make")]]
             /\ settled' = [id \in InstanceIds |-> Unknown]
          \/ \E id \in InstanceIds :
                /\ goroutines' =
                      [goroutines EXCEPT
                         ![g] = [started EXCEPT !.op = "get", !.id = id,
                                                !.expect = settled[id],
                                                !.pc = afterCall("get")]]
                /\ UNCHANGED settled
          \/ \E op \in {"count", "dump", "instances"} :
                /\ goroutines' =
                      [goroutines EXCEPT
                         ![g] = [started EXCEPT !.op = op, !.pc = afterCall(op)]]
                /\ UNCHANGED settled
       /\ UNCHANGED outsideManager

\* ---- sync.RWMutex: a writer that has called Lock keeps new readers and
\* writers out and waits for the readers that hold the lock

\* is.Lock() called
Lock ==
    \E g \in Goroutines :
       /\ goroutines[g].pc = "Lock"
       /\ manager.writer = 0
       /\ manager' = [manager EXCEPT !.writer = g]
       /\ goroutines' = [goroutines EXCEPT ![g].pc = "LockWait"]
       /\ UNCHANGED <<settled, outsideManager>>

\* is.Lock() returns
LockTaken ==
    \E g \in Goroutines :
       /\ goroutines[g].pc = "LockWait"
       /\ manager.readers = 0
       /\ goroutines' = [goroutines EXCEPT ![g].pc = firstAccess(goroutines[g].op)]
       /\ UNCHANGED <<manager, settled, outsideManager>>

\* is.RLock()
RLock ==
    \E g \in Goroutines :
       /\ goroutines[g].pc = "RLock"
       /\ manager.writer = 0
       /\ manager' = [manager EXCEPT !.readers = @ + 1]
       /\ goroutines' = [goroutines EXCEPT ![g].pc = firstAccess(goroutines[g].op),
                                           ![g].local = manager.catalog]
       /\ UNCHANGED <<settled, outsideManager>>

\* is.Unlock(), deferred in add
Unlock ==
    \E g \in Goroutines :
       /\ goroutines[g].pc = "Unlock"
       /\ manager' = [manager EXCEPT !.writer = 0]
       /\ goroutines' = [goroutines EXCEPT ![g].pc = "return"]
       /\ UNCHANGED <<settled, outsideManager>>

\* is.RUnlock(), deferred
RUnlock ==
    \E g \in Goroutines :
       /\ goroutines[g].pc = "RUnlock"
       /\ manager' = [manager EXCEPT !.readers = @ - 1]
       /\ goroutines' = [goroutines EXCEPT ![g].pc = "return"]
       /\ UNCHANGED <<settled, outsideManager>>

\* ---- the accesses to is.catalog

\* is.catalog[*inst.InstanceId] = inst: the map is read, then written
AddLoad ==
    \E g \in Goroutines :
       /\ goroutines[g].pc = "load"
       /\ goroutines' = [goroutines EXCEPT ![g].local = manager.catalog, ![g].pc = "store"]
       /\ UNCHANGED <<manager, settled, outsideManager>>

AddStore ==
    \E g \in Goroutines :
       /\ goroutines[g].pc = "store"
       /\ manager' =
             [manager EXCEPT
                !.catalog = UNION {Put(goroutines[g].local, x) : x \in goroutines[g].inst}]
       /\ goroutines' = [goroutines EXCEPT ![g].pc = "Unlock"]
       /\ UNCHANGED <<settled, outsideManager>>

\* is.catalog = make(instanceMap)
MakeReplace ==
    \E g \in Goroutines :
       /\ goroutines[g].pc = "replace"
       /\ manager' = [manager EXCEPT !.catalog = {}]
       /\ goroutines' = [goroutines EXCEPT ![g].pc = "Unlock"]
       /\ UNCHANGED <<settled, outsideManager>>

\* is.catalog[id], len(is.catalog), spew.Sdump(is.catalog)
Read ==
    \E g \in Goroutines :
       /\ goroutines[g].pc = "read"
       /\ goroutines' =
             [goroutines EXCEPT
                ![g].got = IF goroutines[g].op = "get"
                           THEN Lookup(manager.catalog, goroutines[g].id)
                           ELSE manager.catalog,
                ![g].pc = "RUnlock"]
       /\ UNCHANGED <<manager, settled, outsideManager>>

\* for _, i := range is.catalog { retC <- i }: an element not yet sent is
\* sent, in no particular order, once the caller is at its receive
Send ==
    \E g \in Goroutines :
       /\ goroutines[g].pc = "range"
       /\ goroutines[g].nested = "none"
       /\ \E x \in manager.catalog \ goroutines[g].got :
             goroutines' = [goroutines EXCEPT ![g].got = @ \cup {x}]
       /\ UNCHANGED <<manager, settled, outsideManager>>

\* close(retC), the deferred call that runs first, after the last element
Close ==
    \E g \in Goroutines :
       /\ goroutines[g].pc = "range"
       /\ manager.catalog \ goroutines[g].got = {}
       /\ goroutines' = [goroutines EXCEPT ![g].pc = "RUnlock"]
       /\ UNCHANGED <<manager, settled, outsideManager>>

\* ---- the caller of instances() between two receives: it may look into the
\* index (get, count, dump) and it makes no write

\* the caller calls get, count or dump while it drains the channel
ConsumerCall ==
    \E g \in Goroutines :
       /\ goroutines[g].op = "instances"
       /\ goroutines[g].pc \in {"RLock", "range"}
       /\ goroutines[g].nested = "none"
       /\ manager.calls < MaxCalls
       /\ manager' = [manager EXCEPT !.calls = @ + 1]
       /\ goroutines' = [goroutines EXCEPT ![g].nested = "RLock"]
       /\ UNCHANGED <<settled, outsideManager>>

\* is.RLock() of the caller's lookup
ConsumerRLock ==
    \E g \in Goroutines :
       /\ goroutines[g].nested = "RLock"
       /\ manager.writer = 0
       /\ manager' = [manager EXCEPT !.readers = @ + 1]
       /\ goroutines' = [goroutines EXCEPT ![g].nested = "RUnlock"]
       /\ UNCHANGED <<settled, outsideManager>>

\* the lookup's deferred is.RUnlock(): the caller is back at its receive
ConsumerRUnlock ==
    \E g \in Goroutines :
       /\ goroutines[g].nested = "RUnlock"
       /\ manager' = [manager EXCEPT !.readers = @ - 1]
       /\ goroutines' = [goroutines EXCEPT ![g].nested = "none"]
       /\ UNCHANGED <<settled, outsideManager>>

\* the method returns; a write that no other write to its ids overlapped
\* settles what these ids hold
MethodReturn ==
    \E g \in Goroutines :
       LET r == goroutines[g] IN
       /\ r.pc = "return"
       /\ r.nested = "none"
       /\ goroutines' = [goroutines EXCEPT ![g] = Resting]
       /\ settled' =
             IF ~r.expect.known \/ r.op \notin {"add", "make"} THEN settled
             ELSE [id \in InstanceIds |->
                     IF id \in Written(r)
                     THEN Known(IF r.op = "add" THEN r.inst ELSE {})
                     ELSE settled[id]]
       /\ UNCHANGED <<manager, outsideManager>>

NextManager ==
    \/ CallMethod
    \/ Lock
    \/ LockTaken
    \/ RLock
    \/ Unlock
    \/ RUnlock
    \/ AddLoad
    \/ AddStore
    \/ MakeReplace
    \/ Read
    \/ Send
    \/ Close
    \/ ConsumerCall
    \/ ConsumerRLock
    \/ ConsumerRUnlock
    \/ MethodReturn

SpecManager == InitManager /\ [][NextManager]_vars

\* ---- who is where
Writing(g) == goroutines[g].pc \in {"load", "store", "replace", "Unlock"}
Reading(g) ==
    \/ goroutines[g].pc \in {"read", "range", "RUnlock"}
    \/ goroutines[g].nested = "RUnlock"
Enumerating(g) == goroutines[g].op = "instances" /\ goroutines[g].pc \in {"range", "RUnlock"}

\* C29: a write of the index (add, make) overlaps no other write, no get,
\* count or dump, and no enumeration in progress, which holds the read lock
\* from its first element until after its channel is closed and so sees the
\* index unchanged; an instance added by a completed add that no other write
\* to its id overlapped is in the index, so two concurrent adds of distinct
\* ids are both present afterwards; and a get called after such an add, with
\* no write to the id in between, returns the instance added.
C29_WritesExclusive ==
    /\ \A g, h \in Goroutines :
          g # h /\ Writing(g) => ~Writing(h) /\ ~Reading(h)
    /\ \A g \in Goroutines :
          Enumerating(g) =>
              /\ manager.readers >= 1
              /\ goroutines[g].got \subseteq manager.catalog
    /\ \A id \in InstanceIds :
          settled[id].known => Lookup(manager.catalog, id) = settled[id].value
    /\ \A g \in Goroutines :
          (goroutines[g].op = "get" /\ goroutines[g].pc = "return"
              /\ goroutines[g].expect.known)
             => goroutines[g].got = goroutines[g].expect.value

\* two adds of distinct ids in progress together have both stored their
\* instance, and a get that followed a completed add returned it
C29_Witness ==
    \/ /\ \A g \in Goroutines :
             goroutines[g].op = "add" /\ goroutines[g].pc \in {"Unlock", "return"}
       /\ \E x, y \in manager.catalog : x.id # y.id /\ x.by # y.by
    \/ \E g \in Goroutines :
          /\ goroutines[g].op = "get" /\ goroutines[g].pc = "return"
          /\ goroutines[g].expect.known
          /\ goroutines[g].got # {}

\* =====================================================================
\* The death of the process in the middle of a launch or of a swap, and
\* the invocation that follows on the same resources
\* =====================================================================

\* The process dies between two steps of the handling of an event: what it
\* had loaded and registered is lost with it, its deferred calls never run,
\* and the event is delivered again to a new process.
DieInSwap ==
    /\ pc \notin {"idle", "done"}
    /\ handled + 1 < MaxHandlings
    /\ died' = IF died.process = "swap" THEN died
               ELSE [process |-> "swap", group |-> asgObj]
    /\ handled' = handled + 1
    /\ prevCalls' = calls
    /\ prevRet' = "died"
    /\ calls' = <<>>
    /\ pc' = "idle"
    /\ ret' = "none"
    /\ inst' = NoInstance
    /\ asgObj' = NoGroup
    /\ odInstance' = Nil
    /\ desiredCapacity' = 0
    /\ maxSize' = 0
    /\ defers' = <<>>
    /\ UNCHANGED <<cloud, scenario, launchVars, termVars, filterVars, funVars, managerVars, pairVars>>

\* The process dies between two steps of launchSpotReplacement: the deferred
\* deleteLaunchTemplate never runs, and a later run attempts the replacement
\* of the same instance again.
DieInLaunch ==
    /\ lpc \notin {"idle", "done"}
    /\ launches + 1 < MaxLaunches
    /\ died' = [process |-> "launch", group |-> NoGroup]
    /\ launches' = launches + 1
    /\ lpc' = "createLaunchTemplateData"
    /\ createErr' = NoError
    /\ lt' = Nil
    /\ ltDefers' = <<>>
    /\ instanceTypes' = <<>>
    /\ resp' = NoResponse
    /\ launchRet' = NoResult
    /\ launchCalls' = <<>>
    /\ filtered' = NoTypes
    /\ UNCHANGED <<templates, templateData, hasLaunchTemplate, swapVars, termVars, filterInputs, funVars,
                   managerVars, pairVars>>

\* one behaviour is a launch or the handling of an event, each with the
\* invocations that follow it
InitDeath == Init \/ InitLaunch

NextDeath ==
    \/ lpc = "idle" /\ Next
    \/ lpc # "idle" /\ NextLaunchStep
    \/ DieInSwap
    \/ DieInLaunch

SpecDeath == InitDeath /\ [][NextDeath]_vars

\* ---- what a dead process leaves, and what the next invocation finds
SwapDied == died.process = "swap"
LaunchDied == died.process = "launch"
AllSucceeded(log) == \A k \in 1..Len(log) : log[k].ok

\* the invocation that follows the death has returned
NextInvocationComplete == pc = "done" /\ prevRet = "died"
NextLaunchComplete == lpc = "done" /\ LaunchDied

\* the group is as the dead process found it but for its MaxSize, raised by
\* one, and the spot instance, attached in addition to or instead of the
\* on-demand instance
GroupResidue ==
    LET g == died.group IN
    /\ MaxSize \in {g.MaxSize, g.MaxSize + 1}
    /\ MaxSize # g.MaxSize => g.DesiredCapacity = g.MaxSize
    /\ \/ Instances = g.Instances /\ DesiredCapacity = g.DesiredCapacity
       \/ Instances = g.Instances \cup {SpotId} /\ DesiredCapacity = g.DesiredCapacity + 1
       \/ Instances = (g.Instances \cup {SpotId}) \ {OdId}
            /\ DesiredCapacity = g.DesiredCapacity

\* C30: when the process dies at any point of a launch or of a swap, what it
\* leaves behind is the temporary launch template, suspended scaling
\* processes, and the spot instance attached with the group's MaxSize raised
\* above its original value; and once the next invocation on the same
\* resources has run to its end without a failed call, the template is
\* deleted, the processes are resumed and the group's MaxSize is back at its
\* original value.  The next invocation reads the raised MaxSize as the
\* original one, and skips the event of a spot instance already attached.
C30_DeathResidueCleared ==
    /\ (SwapDied /\ prevRet = "died" /\ pc = "idle") =>
          /\ GroupResidue
          /\ SuspendedProcesses \subseteq ScalingProcesses
    /\ LaunchDied => templates \subseteq {ltName(OdId)}
    /\ (SwapDied /\ NextInvocationComplete /\ AllSucceeded(calls)) =>
          /\ SuspendedProcesses = {}
          /\ MaxSize = died.group.MaxSize
    /\ (NextLaunchComplete /\ createErr \in {NoError, AlreadyExistsError}
          /\ AllSucceeded(SelectSeq(launchCalls,
                 LAMBDA c : c.op # "CreateLaunchTemplate"))) =>
          ltName(OdId) \notin templates

\* =====================================================================
\* The order of the swap's deferred calls, and the group's members and
\* DesiredCapacity across a swap
\* =====================================================================

\* the swap raised MaxSize and has run both of its deferred calls
BothUndone == RestoreIdx # {} /\ ResumeIdx # {}

\* C31 (as stated): when a swap reaches its exit, the deferred
\* ResumeProcesses is issued first and the deferred restore of MaxSize second.
\* The deferred calls run last registered first, and the resume is the first
\* one registered.
C31_ResumeBeforeRestore ==
    BothUndone => \A r \in ResumeIdx, m \in RestoreIdx : r < m

\* C31 (amended): when a swap reaches its exit, the deferred calls run in the
\* reverse of their registration: the restore of MaxSize first, if MaxSize was
\* raised, and ResumeProcesses second, as the last call of the swap; each is
\* issued at most once, and none before the swap has reached its exit.
C31_RestoreBeforeResume ==
    /\ Cardinality(ResumeIdx) <= 1
    /\ Cardinality(RestoreIdx) <= 1
    /\ BothUndone => \A r \in ResumeIdx, m \in RestoreIdx : m < r
    /\ ResumeIdx # {} => ResumeIdx = {Len(calls)} /\ defers = <<>>
    /\ (ResumeIdx # {} \/ RestoreIdx # {}) => pc \in {"defers", "done"}
    /\ (SwapReturned /\ SuspendIdx # {}) =>
          /\ ResumeIdx # {}
          /\ RaiseIdx # {} <=> RestoreIdx # {}

\* a swap of a full group has returned after both deferred calls
C31_Witness ==
    /\ SwapReturned
    /\ BothUndone
    /\ ret = "swapped"

AttachIdx == {k \in 1..Len(calls) : calls[k].op = "AttachInstances"}
TerminateODIdx == {k \in 1..Len(calls) : calls[k].op = "TerminateInstanceInAutoScalingGroup"}

\* C32: in every swap TerminateInstanceInAutoScalingGroup is issued at most
\* once, for the on-demand target, and only after an AttachInstances of the
\* spot instance that succeeded in the same invocation; at no point of the
\* invocation has the group fewer members than it had when the invocation
\* loaded it.
C32_TerminateOnlyAfterAttach ==
    /\ Cardinality(TerminateODIdx) <= 1
    /\ \A t \in TerminateODIdx :
          /\ calls[t].id = OdId
          /\ \E a \in AttachIdx :
                a < t /\ calls[a].ok /\ calls[a].id = SpotId
    /\ pc = "terminateOD" => \E a \in AttachIdx : calls[a].ok
    /\ Cardinality(Instances) >= Cardinality(asgObj.Instances)

\* the on-demand target has been terminated after the attach, and the group
\* has as many members as before the swap
C32_Witness ==
    /\ SwapReturned
    /\ ret = "swapped"
    /\ TerminateODIdx # {}
    /\ OdId \in asgObj.Instances
    /\ Cardinality(Instances) = Cardinality(asgObj.Instances)

\* the swap is past its on-demand termination, which succeeded or failed
SwapSucceeded == SwapInvoked /\ ret = "swapped" /\ pc \in {"defers", "done"}
TerminationFailed ==
    /\ SwapInvoked
    /\ pc \in {"defers", "done"}
    /\ \E t \in TerminateODIdx : ~calls[t].ok

HookLookupFailed == \E k \in TermIdx("DescribeLifecycleHooks") : ~termCalls[k].ok
DefaultAction == terminationNotificationAction \notin {"detach", "terminate"}

FleetJustIssued == FleetIdx # {} /\ Len(launchCalls) \in FleetIdx
TemplateReused == createErr = AlreadyExistsError

\* C35 (as stated): the CreateFleet request of launchSpotReplacement launches
\* from template data synthesized in the same invocation, also when a template
\* of the same name was left over from an earlier run.  A template that is
\* left over is reused as it is, and the data synthesized by the invocation is
\* dropped with the refused CreateLaunchTemplate request.
C35_FleetFromFreshData ==
    FleetJustIssued => templateData = {launches}

\* C35 (amended): the CreateFleet request names the temporary template of the
\* reference instance, which exists when the request is issued; the template
\* holds the data synthesized in the same invocation exactly when
\* CreateLaunchTemplate created it, and when a template of the same name was
\* left over, it is reused with the data of the earlier run that created it.
C35_FleetFromFreshDataUnlessReused ==
    /\ TemplateReused => lt = ltName(OdId)
    /\ FleetJustIssued =>
          /\ lt = ltName(OdId)
          /\ lt \in templates
          /\ createErr \in {NoError, AlreadyExistsError}
          /\ createErr = NoError => templateData = {launches}
          /\ TemplateReused =>
                \E n \in templateData : n < launches /\ templateData = {n}

\* a fleet request has been issued against a template left over with the data
\* of an earlier run
C35_Witness ==
    /\ FleetJustIssued
    /\ TemplateReused
    /\ templateData # {launches}
    /\ launchCalls[Len(launchCalls)].ok

\* =====================================================================
\* The enumeration and the calls waiting on the lock
\* =====================================================================

\* a step of goroutine g inside a method it has called
StepOf(g) ==
    /\ \/ Lock \/ LockTaken \/ RLock \/ Unlock \/ RUnlock
       \/ AddLoad \/ AddStore \/ MakeReplace \/ Read \/ Send \/ Close
       \/ ConsumerRLock \/ ConsumerRUnlock \/ MethodReturn
    /\ goroutines'[g] # goroutines[g]

\* every goroutine that can take a step takes it in the end: the lock is
\* handed to whoever waits for it, and the caller of instances() receives
SpecManagerFair ==
    /\ InitManager
    /\ [][NextManager]_vars
    /\ \A g \in Goroutines : WF_vars(StepOf(g))

InMethod(g) == goroutines[g].pc # "idle"
Closed(g) == goroutines[g].op = "instances" /\ goroutines[g].pc \in {"RUnlock", "return"}

\* C36: an enumeration delivers the instances that were in the index when it
\* took the read lock, each once and no other, and then closes the channel;
\* and with a caller that drains the channel and makes no write while it
\* drains, every add, make, get, count and enumeration called by any goroutine
\* completes in the end.  A lookup the caller makes between two receives
\* waits behind a writer that waits for the enumeration's read lock.
C36_EnumerationAndCallsComplete ==
    /\ [](\A g \in Goroutines :
            /\ Enumerating(g) => goroutines[g].got \subseteq goroutines[g].local
            /\ Closed(g) => goroutines[g].got = goroutines[g].local)
    /\ \A g \in Goroutines : InMethod(g) ~> ~InMethod(g)

\* =====================================================================
\* Two invocations of swapWithGroupMember on the same group, each for its
\* own spot instance and on-demand target, their cloud calls interleaved
\* =====================================================================

Invocations == {1, 2}
SecondSpotId == "i-spot2"
SecondOdId == "i-od2"
SpotOf(i) == IF i = 1 THEN SpotId ELSE SecondSpotId
TargetOf(i) == IF i = 1 THEN OdId ELSE SecondOdId

\* an invocation before its event arrived
NotStarted ==
    [pc |-> "idle", desiredCapacity |-> 0, maxSize |-> 0, defers |-> <<>>,
     failed |-> FALSE, ret |-> "none"]

\* the group holds both on-demand targets and no scaling process is suspended
InitPair ==
    /\ MaxSize \in 2..MaxCap
    /\ DesiredCapacity \in 2..MaxSize
    /\ Instances = {OdId, SecondOdId}
    /\ SuspendedProcesses = {}
    /\ spotState = "running"
    /\ swaps = [before |-> [DesiredCapacity |-> DesiredCapacity, MaxSize |-> MaxSize,
                            Instances |-> Instances, SuspendedProcesses |-> {}],
                inv |-> [i \in Invocations |-> NotStarted]]
    /\ spot = [Tags |-> {}, InstanceLifecycle |-> "spot"]
    /\ od = [exists |-> FALSE, inGroup |-> FALSE, InstanceLifecycle |-> "normal",
             DisableApiTermination |-> FALSE, ProtectedFromScaleIn |-> FALSE]
    /\ asgConf = [enabled |-> FALSE, eventBased |-> FALSE, needReplace |-> FALSE]
    /\ pc = "idle"
    /\ inst = NoInstance
    /\ asgObj = NoGroup
    /\ odInstance = Nil
    /\ desiredCapacity = 0
    /\ maxSize = 0
    /\ defers = <<>>
    /\ ret = "none"
    /\ calls = <<>>
    /\ handled = 0
    /\ prevCalls = <<>>
    /\ prevRet = "none"
    /\ LaunchIdle
    /\ TerminationIdle
    /\ FilterIdle
    /\ FunIdle
    /\ ManagerIdle
    /\ Alive

\* what the two invocations leave alone
outsidePair ==
    <<scenario, locals, pc, ret, calls, history, spotState, launchVars, termVars, filterVars,
      funVars, managerVars, deathVars>>

\* invocation i moves to r
Becomes(i, r) == swaps' = [swaps EXCEPT !.inv[i] = r]
Failing(r, ok) == r.failed \/ ~ok

\* the event of the spot instance of invocation i arrives: the group is
\* loaded, and the candidate found and accepted
PairLoad(i) ==
    LET r == swaps.inv[i] IN
    /\ r.pc = "idle"
    /\ Becomes(i, [r EXCEPT !.pc = "suspend",
                            !.desiredCapacity = DesiredCapacity,
                            !.maxSize = MaxSize])
    /\ UNCHANGED <<MaxSize, DesiredCapacity, SuspendedProcesses, Instances, outsidePair>>

\* asg.suspendProcesses(); defer asg.resumeProcesses()
PairSuspend(i) ==
    LET r == swaps.inv[i] IN
    /\ r.pc = "suspend"
    /\ \E ok \in BOOLEAN :
         /\ SuspendedProcesses' = suspendProcesses(ok, SuspendedProcesses)
         /\ Becomes(i, [r EXCEPT
                !.defers = registerDeferred(r.defers, "resumeProcesses"),
                !.failed = Failing(r, ok),
                !.pc = IF needsMaxSizeIncrease(r.desiredCapacity, r.maxSize)
                       THEN "raiseMaxSize" ELSE "attach"])
    /\ UNCHANGED <<MaxSize, DesiredCapacity, Instances, outsidePair>>

\* asg.setAutoScalingMaxSize(maxSize + 1); defer asg.setAutoScalingMaxSize(maxSize)
PairRaiseMaxSize(i) ==
    LET r == swaps.inv[i] IN
    /\ r.pc = "raiseMaxSize"
    /\ \E ok \in BOOLEAN :
         /\ MaxSize' = setAutoScalingMaxSize(ok, MaxSize, r.maxSize + 1)
         /\ Becomes(i, [r EXCEPT
                !.defers = registerDeferred(r.defers, "setAutoScalingMaxSize"),
                !.failed = Failing(r, ok),
                !.pc = "attach"])
    /\ UNCHANGED <<DesiredCapacity, SuspendedProcesses, Instances, outsidePair>>

\* err = asg.attachSpotInstance(*i.InstanceId, true); i.terminate() and the
\* return when it failed
PairAttachSpot(i) ==
    LET r == swaps.inv[i] IN
    /\ r.pc = "attach"
    /\ \E ok \in BOOLEAN :
         LET attached == attachSpotInstance(ok, SpotOf(i)) IN
         /\ Instances' = IF attached THEN Instances \cup {SpotOf(i)} ELSE Instances
         /\ DesiredCapacity' = IF attached THEN DesiredCapacity + 1 ELSE DesiredCapacity
         /\ Becomes(i, [r EXCEPT
                !.failed = Failing(r, attached),
                !.ret = IF attached THEN r.ret ELSE "err",
                !.pc = IF nextAfterAttach(attached) = "terminateOD"
                       THEN "terminateOD" ELSE "defers"])
    /\ UNCHANGED <<MaxSize, SuspendedProcesses, outsidePair>>

\* asg.terminateInstanceInAutoScalingGroup(odInstance, true, true)
PairTerminateOnDemand(i) ==
    LET r == swaps.inv[i] IN
    /\ r.pc = "terminateOD"
    /\ \E ok \in BOOLEAN :
         LET terminated == terminateInstanceInAutoScalingGroup(ok, TargetOf(i)) IN
         /\ Instances' = IF terminated THEN Instances \ {TargetOf(i)} ELSE Instances
         /\ DesiredCapacity' = IF terminated THEN DesiredCapacity - 1 ELSE DesiredCapacity
         /\ Becomes(i, [r EXCEPT
                !.failed = Failing(r, terminated),
                !.ret = IF terminated THEN "swapped" ELSE "err",
                !.pc = nextAfterTerminateOD(terminated)])
    /\ UNCHANGED <<MaxSize, SuspendedProcesses, outsidePair>>

\* deferred asg.setAutoScalingMaxSize(maxSize)
PairRestoreMaxSize(i) ==
    LET r == swaps.inv[i] IN
    /\ r.pc = "defers"
    /\ r.defers # <<>>
    /\ Head(r.defers) = "setAutoScalingMaxSize"
    /\ \E ok \in BOOLEAN :
         /\ MaxSize' = setAutoScalingMaxSize(ok, MaxSize, r.maxSize)
         /\ Becomes(i, [r EXCEPT !.defers = Tail(r.defers), !.failed = Failing(r, ok)])
    /\ UNCHANGED <<DesiredCapacity, SuspendedProcesses, Instances, outsidePair>>

\* deferred asg.resumeProcesses()
PairResumeProcesses(i) ==
    LET r == swaps.inv[i] IN
    /\ r.pc = "defers"
    /\ r.defers # <<>>
    /\ Head(r.defers) = "resumeProcesses"
    /\ \E ok \in BOOLEAN :
         /\ SuspendedProcesses' = resumeProcesses(ok, SuspendedProcesses)
         /\ Becomes(i, [r EXCEPT !.defers = Tail(r.defers), !.failed = Failing(r, ok)])
    /\ UNCHANGED <<MaxSize, DesiredCapacity, Instances, outsidePair>>

\* every deferred call has run: the invocation returns
PairReturn(i) ==
    LET r == swaps.inv[i] IN
    /\ r.pc = "defers"
    /\ r.defers = <<>>
    /\ Becomes(i, [r EXCEPT !.pc = "done"])
    /\ UNCHANGED <<MaxSize, DesiredCapacity, SuspendedProcesses, Instances, outsidePair>>

NextPair ==
    \E i \in Invocations :
       \/ PairLoad(i)
       \/ PairSuspend(i)
       \/ PairRaiseMaxSize(i)
       \/ PairAttachSpot(i)
       \/ PairTerminateOnDemand(i)
       \/ PairRestoreMaxSize(i)
       \/ PairResumeProcesses(i)
       \/ PairReturn(i)

SpecPair == InitPair /\ [][NextPair]_vars

\* invocation i is between its suspend and its on-demand termination
MidSwap(i) == swaps.inv[i].pc \in {"raiseMaxSize", "attach", "terminateOD"}
BothReturned == \A i \in Invocations : swaps.inv[i].pc = "done"
NoCallFailed == \A i \in Invocations : ~swaps.inv[i].failed

\* a deferred call of invocation i changes the group while j is in mid-swap
UndoUnderOther(i, j) ==
    /\ i # j
    /\ MidSwap(j)
    /\ swaps.inv[i].pc = "defers"
    /\ swaps'.inv[i] # swaps.inv[i]
    /\ SuspendedProcesses' # SuspendedProcesses \/ MaxSize' # MaxSize

\* C37: when two invocations of the swap for different spot instances run
\* interleaved on the same group, no resume and no restore of MaxSize of one
\* takes effect while the other is between its suspend and its on-demand
\* termination; and after both have returned, with no call failed, the
\* group's MaxSize is the value it had before either started and no scaling
\* process is suspended.  Nothing orders the calls of two invocations.
C37_InterleavedSwapsKeepGroup ==
    /\ [][~ \E i, j \in Invocations : UndoUnderOther(i, j)]_vars
    /\ []((BothReturned /\ NoCallFailed) =>
             /\ MaxSize = swaps.before.MaxSize
             /\ SuspendedProcesses = {})

\* =====================================================================
\* createLaunchTemplateData: the block device mappings, taken from the
\* image, the launch template and the launch configuration
\* =====================================================================

\* longest list of block device mappings of a source
MaxMappings == 2

\* the mappings of a source, named by the source and their position; NoDevice
\* is a *bool in a launch configuration and a *string in a launch template
\* and in an image.  The Ebs block of a mapping is left out here.
MappingLists(source, flags) ==
    UNION {{[k \in 1..n |-> [DeviceName |-> <<source, k>>, NoDevice |-> f[k]]] :
               f \in [1..n -> flags]} : n \in 0..MaxMappings}
ConfigurationMappings == MappingLists("configuration", {{}, {TRUE}, {FALSE}})
TemplateMappings == MappingLists("template", {{}, {"true"}, {""}})
ImageMappings == MappingLists("image", {{}, {"true"}, {""}})

\* the mapping of the request: DeviceName copied, NoDevice not set
Request(BDM) == [DeviceName |-> BDM.DeviceName]
Converted(kept) == [k \in 1..Len(kept) |-> Request(kept[k])]

\* every mapping is kept, whatever its NoDevice
convertLaunchConfigurationBlockDeviceMappings_KeepAll(BDMs) == Converted(BDMs)

\* if BDM.NoDevice != nil && *BDM.NoDevice { continue }
convertLaunchConfigurationBlockDeviceMappings(BDMs) ==
    Converted(SelectSeq(BDMs, LAMBDA BDM : ~(BDM.NoDevice # {} /\ Deref(BDM.NoDevice))))

\* if BDM.NoDevice != nil && *BDM.NoDevice == "true" { continue }
convertLaunchTemplateBlockDeviceMappings(BDMs) ==
    Converted(SelectSeq(BDMs, LAMBDA BDM : ~(BDM.NoDevice # {} /\ Deref(BDM.NoDevice) = "true")))

convertImageBlockDeviceMappings(BDMs) ==
    Converted(SelectSeq(BDMs, LAMBDA BDM : ~(BDM.NoDevice # {} /\ Deref(BDM.NoDevice) = "true")))

\* processImageBlockDevices: nothing is set when DescribeImages fails or
\* returns no image
processImageBlockDevices(rii, ok, Images) ==
    IF ~ok \/ Len(Images) = 0 THEN rii
    ELSE [rii EXCEPT
            !.BlockDeviceMappings =
                convertImageBlockDeviceMappings(Images[1].BlockDeviceMappings)]

\* processLaunchTemplate: retval.BlockDeviceMappings = ...
processLaunchTemplateBlockDevices(retval, ltData) ==
    [retval EXCEPT
        !.BlockDeviceMappings =
            convertLaunchTemplateBlockDeviceMappings(ltData.BlockDeviceMappings)]

\* the launch configuration's mappings replace the others even when none is left
processLaunchConfigurationBlockDevices_Always(retval, lc) ==
    [retval EXCEPT
        !.BlockDeviceMappings =
            convertLaunchConfigurationBlockDeviceMappings(lc.BlockDeviceMappings)]

\* processLaunchConfiguration: if len(BDMs) > 0 { retval.BlockDeviceMappings = BDMs }
processLaunchConfigurationBlockDevices(retval, lc) ==
    LET BDMs == convertLaunchConfigurationBlockDeviceMappings(lc.BlockDeviceMappings) IN
    IF Len(BDMs) > 0 THEN [retval EXCEPT !.BlockDeviceMappings = BDMs] ELSE retval

NoBlockDevices == [BlockDeviceMappings |-> <<>>]

\* createLaunchTemplateData, as far as the block device mappings go: the
\* image first, then the launch template, then the launch configuration
createLaunchTemplateDataBlockDevices(i, imageOk, described) ==
    LET afterImage == processImageBlockDevices(NoBlockDevices, imageOk, i.Images)
        afterTemplate ==
            IF i.asg.LaunchTemplate # {}
            THEN processLaunchTemplateBlockDevices(afterImage, Deref(i.asg.LaunchTemplate))
            ELSE afterImage
        afterConfiguration ==
            IF i.asg.launchConfiguration # {}
            THEN processLaunchConfigurationBlockDevices(afterTemplate,
                     Deref(i.asg.launchConfiguration))
            ELSE afterTemplate
    IN  IF i.asg.LaunchTemplate # {} /\ ~described
        THEN [ltData |-> NoBlockDevices, err |-> CloudError("DescribeLaunchTemplateVersions"),
              imageOk |-> imageOk]
        ELSE [ltData |-> afterConfiguration, err |-> NoError, imageOk |-> imageOk]

\* the image of the instance, if the cloud still has it, and the group's sources
BlockDeviceInputs ==
    [Images : {<<>>} \cup {<<[BlockDeviceMappings |-> L]>> : L \in ImageMappings},
     asg : [LaunchTemplate : {{}} \cup {{[BlockDeviceMappings |-> L]} : L \in TemplateMappings},
            launchConfiguration :
                {{}} \cup {{[BlockDeviceMappings |-> L]} : L \in ConfigurationMappings}]]

InitBlockDevices ==
    /\ input \in BlockDeviceInputs
    /\ output = [ltData |-> NoBlockDevices, err |-> NoError, imageOk |-> FALSE]
    /\ applied = FALSE
    /\ SwapIdle
    /\ LaunchIdle
    /\ TerminationIdle
    /\ FilterIdle
    /\ ManagerIdle
    /\ Alive
    /\ PairIdle

\* createLaunchTemplateData, with DescribeImages and
\* DescribeLaunchTemplateVersions failing or not
ApplyBlockDevices ==
    /\ ~applied
    /\ \E imageOk, described \in BOOLEAN :
          output' = createLaunchTemplateDataBlockDevices(input, imageOk, described)
    /\ applied' = TRUE
    /\ UNCHANGED <<input, outsideFun>>

NextBlockDevices == ApplyBlockDevices

SpecBlockDevices == InitBlockDevices /\ [][NextBlockDevices]_vars

\* ---- the sources and what they mark
MarkedNoDevice(BDM) ==
    /\ BDM.NoDevice # {}
    /\ IF BDM.DeviceName[1] = "configuration"
       THEN Deref(BDM.NoDevice)
       ELSE Deref(BDM.NoDevice) = "true"
Names(BDMs) == [k \in 1..Len(BDMs) |-> BDMs[k].DeviceName]
Unmarked(BDMs) == Names(SelectSeq(BDMs, LAMBDA BDM : ~MarkedNoDevice(BDM)))
SourceMappings(source) ==
    IF source = {} THEN <<>> ELSE Deref(source).BlockDeviceMappings
OfConfiguration == SourceMappings(input.asg.launchConfiguration)
OfTemplate == SourceMappings(input.asg.LaunchTemplate)
OfImage ==
    IF output.imageOk /\ Len(input.Images) > 0
    THEN input.Images[1].BlockDeviceMappings ELSE <<>>
NoMarkedIn(BDMs, names) ==
    \A j \in 1..Len(BDMs) :
       MarkedNoDevice(BDMs[j]) => \A k \in 1..Len(names) : names[k] # BDMs[j].DeviceName
ResultNames == Names(output.ltData.BlockDeviceMappings)

\* C38: the block device mappings of the launch-template data are those of
\* the launch configuration when it has a mapping not marked NoDevice;
\* otherwise those of the launch template when the group has one; otherwise
\* those of the image; each time the source's mappings not marked NoDevice,
\* in the source's order, and no mapping marked NoDevice is in the result.
C38_BlockDeviceSources ==
    (applied /\ output.err = NoError) =>
        /\ ResultNames =
              IF Unmarked(OfConfiguration) # <<>> THEN Unmarked(OfConfiguration)
              ELSE IF input.asg.LaunchTemplate # {} THEN Unmarked(OfTemplate)
              ELSE Unmarked(OfImage)
        /\ NoMarkedIn(OfConfiguration, ResultNames)
        /\ NoMarkedIn(OfTemplate, ResultNames)
        /\ NoMarkedIn(OfImage, ResultNames)

\* every mapping of the launch configuration is marked NoDevice and the
\* group has a launch template: the template's unmarked mapping is the
\* result, the image's mappings are not
C38_Witness ==
    /\ applied /\ output.err = NoError
    /\ OfConfiguration # <<>>
    /\ Unmarked(OfConfiguration) = <<>>
    /\ Len(OfTemplate) = 2
    /\ Len(Unmarked(OfTemplate)) = 1
    /\ Unmarked(OfImage) # <<>>
    /\ ResultNames = Unmarked(OfTemplate)

====
